---- MODULE Spec2Model ----
(***************************************************************************)
(* Model of the query path of industry_vis (src-tauri/src): the query      *)
(* cache, the query service and the data processing pipeline               *)
(*                                                                         *)
(* Five specifications share the module:                                   *)
(*   KeySpec   - CacheKey::new as a pure function of its arguments         *)
(*   Spec      - QueryCache with every operation taken as one atomic step  *)
(*   ConcSpec  - QueryCache with the lock acquisitions of the operations   *)
(*               as separate steps of concurrent callers                   *)
(*   QuerySpec - QueryService::query_history / query_history_v2 requests   *)
(*               of concurrent tasks over the cache and the backing store  *)
(*   ProcSpec  - the data processing functions (src-tauri/src/processing)  *)
(*               as pure functions of bounded arguments                    *)
(*                                                                         *)
(* Strings that the code orders or hashes (tags, method names) are         *)
(* sequences of UTF-8 bytes; strings that are only copied and compared     *)
(* (table, start_time, end_time) are TLA+ strings.                         *)
(***************************************************************************)
EXTENDS Integers, Sequences, FiniteSets, TLC

(***************************************************************************)
(* Bounds of the model                                                     *)
(***************************************************************************)
MaxTags == 2
MaxCap == 2
MaxTime == 2
MaxGets == 2

(***************************************************************************)
(* Option<T>                                                               *)
(***************************************************************************)
None == [some |-> FALSE]
Some(x) == [some |-> TRUE, val |-> x]

(***************************************************************************)
(* Input domains                                                           *)
(***************************************************************************)
\* "a", "b", "ab" as UTF-8 bytes
TagNames == {<<97>>, <<98>>, <<97, 98>>}

RECURSIVE SeqsUpTo(_, _)
SeqsUpTo(S, n) ==
    IF n = 0 THEN {<<>>}
    ELSE LET shorter == SeqsUpTo(S, n - 1)
         IN  shorter \cup {Append(s, x) : s \in {t \in shorter : Len(t) = n - 1}, x \in S}


\* ResampleConfig::default / SmoothingConfig::default style fixed config
BaseConfig ==
    [outlier_removal |-> [enabled |-> TRUE, method |-> <<109>>],
     resample |-> [enabled |-> FALSE, interval |-> 60, method |-> <<109>>],
     smoothing |-> [enabled |-> FALSE, method |-> <<109>>, window |-> 5]]

\* the names of the sub-fields in which two configs differ
DiffFields(c, d) ==
    {f \in {"outlier_removal.enabled", "outlier_removal.method", "resample.enabled",
            "resample.interval", "resample.method", "smoothing.enabled",
            "smoothing.method", "smoothing.window"} :
        \/ f = "outlier_removal.enabled" /\ c.outlier_removal.enabled # d.outlier_removal.enabled
        \/ f = "outlier_removal.method" /\ c.outlier_removal.method # d.outlier_removal.method
        \/ f = "resample.enabled" /\ c.resample.enabled # d.resample.enabled
        \/ f = "resample.interval" /\ c.resample.interval # d.resample.interval
        \/ f = "resample.method" /\ c.resample.method # d.resample.method
        \/ f = "smoothing.enabled" /\ c.smoothing.enabled # d.smoothing.enabled
        \/ f = "smoothing.method" /\ c.smoothing.method # d.smoothing.method
        \/ f = "smoothing.window" /\ c.smoothing.window # d.smoothing.window}

(***************************************************************************)
(* Ordering of strings: Ord for str compares the bytes lexicographically   *)
(***************************************************************************)
RECURSIVE StrLess(_, _)
StrLess(a, b) ==
    IF b = <<>> THEN FALSE
    ELSE IF a = <<>> THEN TRUE
    ELSE IF Head(a) # Head(b) THEN Head(a) < Head(b)
    ELSE StrLess(Tail(a), Tail(b))

\* mutant of SortTags: the tags are stored in the order given
SortTagsUnsorted(tags) == tags

\* sorted_tags.sort(): stable ascending sort, duplicates are kept
SortTags(tags) ==
    LET \* insertion of x into an ascending sequence, after the elements equal
        \* to it
        RECURSIVE InsertSorted(_, _)
        InsertSorted(s, x) ==
            IF s = <<>> THEN <<x>>
            ELSE IF StrLess(x, Head(s)) THEN <<x>> \o s
            ELSE <<Head(s)>> \o InsertSorted(Tail(s), x)
        RECURSIVE SortFrom(_, _)
        SortFrom(acc, rest) ==
            IF rest = <<>> THEN acc
            ELSE SortFrom(InsertSorted(acc, Head(rest)), Tail(rest))
    IN  SortFrom(<<>>, tags)

(***************************************************************************)
(* Hash::hash into a DefaultHasher: what each field writes to the stream   *)
(***************************************************************************)
\* bool::hash -> write_u8
HashBool(b) == <<IF b THEN 1 ELSE 0>>

\* str::hash -> write(bytes); write_u8(0xff)
HashStr(s) == s \o <<255>>

RECURSIVE LeBytes(_, _)
LeBytes(n, width) ==
    IF width = 0 THEN <<>> ELSE <<n % 256>> \o LeBytes(n \div 256, width - 1)

\* mutant of ConfigStream: the smoothing window is left out of the hash
ConfigStreamNoWindow(c) ==
    HashBool(c.outlier_removal.enabled) \o HashStr(c.outlier_removal.method)
    \o HashBool(c.resample.enabled) \o LeBytes(c.resample.interval, 4)
    \o HashStr(c.resample.method)
    \o HashBool(c.smoothing.enabled) \o HashStr(c.smoothing.method)

\* the fields hashed by CacheKey::new, in the order of the code: u32::hash
\* writes 4 bytes, usize::hash 8 bytes (64-bit target)
ConfigStream(c) ==
    HashBool(c.outlier_removal.enabled) \o HashStr(c.outlier_removal.method)
    \o HashBool(c.resample.enabled) \o LeBytes(c.resample.interval, 4)
    \o HashStr(c.resample.method)
    \o HashBool(c.smoothing.enabled) \o HashStr(c.smoothing.method)
    \o LeBytes(c.smoothing.window, 8)

\* Hasher::finish, and the u64 value 0 of unwrap_or(0). The digest function
\* of DefaultHasher is not part of the repository; the digest is represented
\* by the byte stream it is computed from, so two digests are equal exactly
\* when the hashed streams are equal.
ProcessingConfigHash(cfg) ==
    IF cfg.some THEN [digest |-> ConfigStream(cfg.val)] ELSE [digest |-> <<>>]

\* CacheKey::new
CacheKeyNew(table, start_time, end_time, tags, processing_config) ==
    [table |-> table,
     start_time |-> start_time,
     end_time |-> end_time,
     tags |-> SortTags(IF tags.some THEN tags.val ELSE <<>>),
     processing_config_hash |-> ProcessingConfigHash(processing_config)]

(***************************************************************************)
(* State                                                                   *)
(***************************************************************************)
VARIABLES
    keyIn,      \* KeySpec: the arguments of two CacheKey::new calls
    keyOut,     \* KeySpec: the two keys built
    config,     \* QueryCache.config: [max_entries, ttl_seconds]
    cache,      \* QueryCache.cache: the LruCache, most recently used entry first
    stats,      \* QueryCache.stats: [hits, misses]
    now,        \* the monotonic clock read by Instant::now, in seconds
    ret,        \* the operation just completed and what it returned
    live,       \* history: per key the payload and time of the last put that
                \*   was neither evicted for capacity nor cleared since and
                \*   was not found older than its TTL by a get or a sweep
    calls,      \* history: gets completed since creation or the last clear,
                \*   split by what they returned
    recency,    \* history: the keys of live in the order of their last access
                \*   (put or get hit), most recent first
    cacheLock,  \* ConcSpec: the RwLock around QueryCache.cache
    statsLock,  \* ConcSpec: the RwLock around QueryCache.stats
    pc,         \* ConcSpec: where each caller stands in its operation
    local,      \* ConcSpec: the local variables of each caller's operation
    abs,        \* ConcSpec, history: the cache and counters as the operations
                \*   linearized so far leave them when each is one atomic step
    svc,        \* QuerySpec: per task the query_history request it serves:
                \*   where it stands, its arguments and its local variables
    puts,       \* QuerySpec, history: per key the task and the payload of the
                \*   cache.put call that ran last
    procIn,     \* ProcSpec: the arguments of the processing functions
    procOut,    \* ProcSpec: the function applied and what it returned
    pool,       \* PoolSpec: the single-connection ConnectionPool, its callers
                \*   and the connections made so far
    warm,       \* WarmSpec: the CacheWarmer::warmup call: its tasks, where it
                \*   stands, its progress and the progress values sent
    tagGroups   \* GroupSpec: the TagGroupConfigManager: its groups, the
                \*   wall clock in milliseconds and the call just completed

\* the variables that the cache operations leave alone
notCacheVars == <<keyIn, keyOut, cacheLock, statsLock, pc, local, abs,
                  svc, puts, procIn, procOut, pool,
                  warm, tagGroups>>
\* the variables that the steps of concurrent callers leave alone
notConcVars == <<keyIn, keyOut, ret, live, calls, recency,
                 svc, puts, procIn, procOut, pool,
                 warm, tagGroups>>
\* the variables that the steps of the query requests leave alone
notQueryVars == <<keyIn, keyOut, ret, live, calls, recency,
                  cacheLock, statsLock, pc, local, abs, procIn,
                  procOut, pool,
                  warm, tagGroups>>
\* the variables that the connection pool leaves alone
notPoolVars == <<keyIn, keyOut, config, cache, stats, now, ret, live, calls,
                 recency, cacheLock, statsLock, pc, local, abs, svc, puts,
                 procIn, procOut,
                 warm, tagGroups>>
\* the variables that the cache warmer leaves alone
notWarmVars == <<keyIn, keyOut, config, now, ret, live, calls, recency,
                 cacheLock, statsLock, pc, local, abs, svc, puts, procIn,
                 procOut, pool, tagGroups>>
\* the variables that the tag group manager leaves alone
notGroupVars == <<keyIn, keyOut, config, cache, stats, now, ret, live, calls,
                  recency, cacheLock, statsLock, pc, local, abs, svc, puts,
                  procIn, procOut, pool, warm>>
\* the variables that the processing functions leave alone
notProcVars == <<keyIn, keyOut, config, cache, stats, now, ret, live, calls,
                 recency, cacheLock, statsLock, pc, local, abs, svc,
                 puts, pool,
                 warm, tagGroups>>
vars == <<keyIn, keyOut, config, cache, stats, now, ret, live, calls, recency,
          cacheLock, statsLock, pc, local, abs, svc, puts, procIn,
          procOut, pool,
          warm, tagGroups>>

(***************************************************************************)
(* The arguments of the two CacheKey::new calls of KeySpec                 *)
(***************************************************************************)
\* two configs that differ in at most one sub-field, everything else the same
ConfigKeyInput(c, d) ==
    [table |-> "History", start_time |-> "2024-01-01", end_time |-> "2024-01-10",
     tagsA |-> None, tagsB |-> None, cfgA |-> Some(c), cfgB |-> Some(d)]

(***************************************************************************)
(* QueryCache: data                                                        *)
(***************************************************************************)
\* the keys used by the cache operations, built as in test_cache_lru_eviction
Keys ==
    {CacheKeyNew("History", d, "2024-01-10", None, None) :
        d \in {"2024-01-01", "2024-01-02", "2024-01-03"}}

\* models::HistoryRecord
Record1 ==
    [date_time |-> "2024-01-01T00:00:00", tag_name |-> "tag1", tag_val |-> 1,
     tag_quality |-> "Good"]

\* QueryCache::new: NonZeroUsize::new(max_entries).unwrap_or(50)
LruCap(max_entries) == IF max_entries = 0 THEN 50 ELSE max_entries

\* CacheEntry::new
CacheEntryNew(data, ttl, t) == [data |-> data, created_at |-> t, ttl |-> ttl]

\* mutant of IsExpired: an entry expires as soon as its age reaches the TTL
IsExpiredAtTtl(entry, t) == t - entry.created_at >= entry.ttl

\* CacheEntry::is_expired: created_at.elapsed() > ttl
IsExpired(entry, t) == t - entry.created_at > entry.ttl

(***************************************************************************)
(* LruCache (crate lru): a sequence of [key, entry], most recent first     *)
(***************************************************************************)
LruKeys(c) == {c[i].key : i \in 1..Len(c)}

LruIndex(c, k) == IF k \in LruKeys(c) THEN CHOOSE i \in 1..Len(c) : c[i].key = k ELSE 0

LruRemoveAt(c, i) == SubSeq(c, 1, i - 1) \o SubSeq(c, i + 1, Len(c))

\* LruCache::pop
LruPop(c, k) ==
    LET i == LruIndex(c, k) IN IF i = 0 THEN c ELSE LruRemoveAt(c, i)

\* mutant of CacheGetValue: an entry found is returned whatever its age
CacheGetValueAnyAge(entry, t) == Some(entry.data)

\* QueryCache::get on an entry found: None when it has expired
CacheGetValue(entry, t) == IF IsExpired(entry, t) THEN None ELSE Some(entry.data)

\* mutant of LruPut: a full cache drops its most recently used entry
LruPutEvictNewest(c, cap, k, entry) ==
    IF k \in LruKeys(c) THEN <<[key |-> k, entry |-> entry]>> \o LruPop(c, k)
    ELSE IF Len(c) >= cap THEN <<[key |-> k, entry |-> entry]>> \o Tail(c)
    ELSE <<[key |-> k, entry |-> entry]>> \o c

\* LruCache::put: replaces the value of a key already present; a new key in
\* a full cache takes the place of the least recently used entry
LruPut(c, cap, k, entry) ==
    IF k \in LruKeys(c) THEN <<[key |-> k, entry |-> entry]>> \o LruPop(c, k)
    ELSE IF Len(c) >= cap THEN <<[key |-> k, entry |-> entry]>> \o SubSeq(c, 1, Len(c) - 1)
    ELSE <<[key |-> k, entry |-> entry]>> \o c

(***************************************************************************)
(* QueryCache: the operations on the data                                  *)
(***************************************************************************)
\* get that restarts the TTL of the entry it returns
CacheGetRefreshing(c, k, t) ==
    IF k \in LruKeys(c)
    THEN LET i == LruIndex(c, k)
             promoted == <<c[i]>> \o LruRemoveAt(c, i)
             entry == promoted[1].entry
         IN  IF IsExpired(entry, t)
             THEN [cache |-> LruPop(promoted, k), value |-> CacheGetValue(entry, t)]
             ELSE [cache |-> <<[key |-> k, entry |-> [entry EXCEPT !.created_at = t]]>>
                                \o Tail(promoted),
                   value |-> CacheGetValue(entry, t)]
    ELSE [cache |-> c, value |-> None]

\* the cache part of QueryCache::get at time t: the cache afterwards and the
\* value returned
CacheGet(c, k, t) ==
    IF k \in LruKeys(c)
    THEN LET \* LruCache::get: the entry found becomes the most recently used
             i == LruIndex(c, k)
             promoted == <<c[i]>> \o LruRemoveAt(c, i)
             entry == promoted[1].entry
         IN  IF IsExpired(entry, t)
             THEN [cache |-> LruPop(promoted, k), value |-> CacheGetValue(entry, t)]
             ELSE [cache |-> promoted, value |-> CacheGetValue(entry, t)]
    ELSE [cache |-> c, value |-> None]

\* mutant of StatsAfterGet: a get that finds nothing is not counted
StatsAfterGetHitsOnly(st, value) ==
    IF value.some THEN [st EXCEPT !.hits = @ + 1] ELSE st

\* the statistics part of QueryCache::get
StatsAfterGet(st, value) ==
    IF value.some THEN [st EXCEPT !.hits = @ + 1] ELSE [st EXCEPT !.misses = @ + 1]

\* mutant of StatsAfterClear: clear empties the cache and keeps the counters
StatsAfterClearKept(st) == st

\* the statistics part of QueryCache::clear
StatsAfterClear(st) == [hits |-> 0, misses |-> 0]

\* evict_expired that finds no entry expired
CacheEvictExpiredNothing(c, t) == c

\* the cache part of QueryCache::evict_expired at time t
CacheEvictExpired(c, t) == SelectSeq(c, LAMBDA e : ~IsExpired(e.entry, t))

RECURSIVE SumMemory(_)
SumMemory(c) == IF c = <<>> THEN 0 ELSE Len(Head(c).entry.data) * 100 + SumMemory(Tail(c))

\* QueryCache::get_stats (hit_rate, a float derived from hits and misses, is
\* left out)
StatsSnapshot(c, st, cfg) ==
    [hits |-> st.hits, misses |-> st.misses, entries |-> Len(c),
     max_entries |-> cfg.max_entries, estimated_memory_bytes |-> SumMemory(c)]

(***************************************************************************)
(* Spec: QueryCache, every operation one atomic step                       *)
(***************************************************************************)
\* QueryCache::new
CacheNew(cfg) ==
    /\ config = cfg
    /\ cache = <<>>
    /\ stats = [hits |-> 0, misses |-> 0]
    /\ now = 0
    /\ ret = [op |-> "new"]
    /\ live = [k \in Keys |-> None]
    /\ calls = [some |-> 0, none |-> 0]
    /\ recency = <<>>

\* the tasks that share the cache
Procs == {1, 2}

FreeLock == [writer |-> 0, readers |-> {}]

\* the callers before any call
ConcNew ==
    /\ cacheLock = FreeLock
    /\ statsLock = FreeLock
    /\ pc = [p \in Procs |-> "idle"]
    /\ local = [p \in Procs |-> [op |-> "none"]]
    /\ abs = [cache |-> <<>>, stats |-> [hits |-> 0, misses |-> 0]]

\* QueryParams and processing_config of the requests of QuerySpec
QueryArgs ==
    {[start_time |-> "2024-01-01", end_time |-> "2024-01-10", tags |-> None,
      processing_config |-> None],
     [start_time |-> "2024-01-02", end_time |-> "2024-01-10", tags |-> None,
      processing_config |-> Some([BaseConfig EXCEPT !.outlier_removal.enabled = FALSE,
                                                    !.smoothing.enabled = TRUE,
                                                    !.smoothing.window = 2])]}

\* the cache key that QueryService builds for a request
KeyOfArgs(args) ==
    CacheKeyNew("History", args.start_time, args.end_time, args.tags,
                args.processing_config)

\* the arguments of the requests of PageSpec: resampling to one point per
\* second, nothing else
PageArgs ==
    [start_time |-> "2024-01-03", end_time |-> "2024-01-10", tags |-> None,
     processing_config |-> Some([BaseConfig EXCEPT !.outlier_removal.enabled = FALSE,
                                                   !.resample.enabled = TRUE,
                                                   !.resample.interval = 1])]

QueryKeys == {KeyOfArgs(args) : args \in QueryArgs \cup {PageArgs}}

\* the query service before any request
QueryNew ==
    /\ svc = [p \in Procs |-> [pc |-> "idle", n |-> 0]]
    /\ puts = [k \in QueryKeys |-> None]

\* ConnectionPool::new: no connection, the mutex free, the configuration
\* given to new (configuration 0), no caller
PoolNew ==
    [client |-> None, mutex |-> 0, made |-> 0, broken |-> {}, failed |-> {},
     config |-> 0, with |-> <<>>, updated |-> 0,
     task |-> [p \in Procs |-> [pc |-> "idle", conn |-> 0, checked |-> None,
                                fresh |-> 0, ret |-> "none", arg |-> 0]]]

\* the processing functions, the pool, the warmer and the tag groups while
\* they are not exercised
ProcParked ==
    LET \* CacheWarmer::new: no warmup call yet
        WarmNew ==
            [pc |-> "idle", tasks |-> <<>>, i |-> 0, has_tx |-> FALSE,
             progress |-> None, sent |-> <<>>, fetches |-> <<>>, ret |-> None]
        \* TagGroupConfigManager::load_from a path without a file:
        \* TagGroupConfig::new
        GroupsNew ==
            [groups |-> <<>>, clock |-> 0, ret |-> [op |-> "load"]]
    IN  /\ procIn = [fn |-> "none"]
        /\ procOut = [fn |-> "none"]
        /\ pool = PoolNew
        /\ warm = WarmNew
        /\ tagGroups = GroupsNew

\* the key builder while only the cache is exercised
KeyParked ==
    /\ keyIn = ConfigKeyInput(BaseConfig, BaseConfig)
    /\ keyOut = [built |-> FALSE]

Init ==
    /\ KeyParked
    /\ ConcNew
    /\ QueryNew
    /\ ProcParked
    /\ \E cfg \in [max_entries : 0..MaxCap, ttl_seconds : {1}] : CacheNew(cfg)

\* the last put of k is in force and its TTL has not elapsed
LiveNow(k) == live[k].some /\ now - live[k].val.at <= config.ttl_seconds
\* the last put of k is in force and its TTL has elapsed
StaleNow(k) == live[k].some /\ now - live[k].val.at > config.ttl_seconds

Touch(order, k) == <<k>> \o SelectSeq(order, LAMBDA x : x # k)

\* QueryCache::get
Get(k) ==
    /\ stats.hits + stats.misses < MaxGets
    /\ \E r \in {CacheGet(cache, k, now)} :
           /\ cache' = r.cache
           /\ stats' = StatsAfterGet(stats, r.value)
           /\ ret' = [op |-> "get", key |-> k, value |-> r.value,
                      live |-> LiveNow(k), stale |-> StaleNow(k)]
           /\ calls' = IF r.value.some THEN [calls EXCEPT !.some = @ + 1]
                                        ELSE [calls EXCEPT !.none = @ + 1]
           /\ recency' = IF r.value.some THEN Touch(recency, k)
                          ELSE SelectSeq(recency, LAMBDA x : x # k)
    /\ live' = IF StaleNow(k) THEN [live EXCEPT ![k] = None] ELSE live
    /\ UNCHANGED <<config, now>>
    /\ UNCHANGED notCacheVars

\* QueryCache::put
Put(k, data) ==
    /\ \E after \in {LruPut(cache, LruCap(config.max_entries), k,
                              CacheEntryNew(data, config.ttl_seconds, now))} :
         \E evicted \in {LruKeys(cache) \ LruKeys(after)} :
           /\ cache' = after
           /\ live' = [x \in Keys |->
                         IF x = k THEN Some([data |-> data, at |-> now])
                         ELSE IF x \in evicted THEN None ELSE live[x]]
           /\ ret' = [op |-> "put", key |-> k,
                      before |-> LruKeys(cache), evicted |-> evicted,
                      \* the key of the cache accessed longest ago
                      oldest |-> IF cache = <<>> THEN {}
                                 ELSE LET idx == {i \in 1..Len(recency) :
                                                     recency[i] \in LruKeys(cache)}
                                      IN  {recency[CHOOSE i \in idx :
                                                       \A j \in idx : j <= i]}]
           /\ recency' = Touch(SelectSeq(recency, LAMBDA x : x \notin evicted), k)
    /\ UNCHANGED <<config, stats, now, calls>>
    /\ UNCHANGED notCacheVars

\* QueryCache::clear
Clear ==
    /\ cache' = <<>>
    /\ stats' = StatsAfterClear(stats)
    /\ ret' = [op |-> "clear", removed |-> Len(cache), counted |-> stats.hits + stats.misses]
    /\ live' = [k \in Keys |-> None]
    /\ calls' = [some |-> 0, none |-> 0]
    /\ recency' = <<>>
    /\ UNCHANGED <<config, now>>
    /\ UNCHANGED notCacheVars

\* QueryCache::get_stats
GetStats ==
    /\ ret' = [op |-> "stats", value |-> StatsSnapshot(cache, stats, config)]
    /\ UNCHANGED <<config, cache, stats, now, live, calls, recency>>
    /\ UNCHANGED notCacheVars

\* QueryCache::evict_expired
EvictExpired ==
    /\ cache' = CacheEvictExpired(cache, now)
    /\ ret' = [op |-> "evict", stale |-> {k \in Keys : StaleNow(k)}]
    /\ live' = [k \in Keys |-> IF StaleNow(k) THEN None ELSE live[k]]
    /\ recency' = SelectSeq(recency, LAMBDA k : ~StaleNow(k))
    /\ UNCHANGED <<config, stats, now, calls>>
    /\ UNCHANGED notCacheVars

\* time passes between two operations
Tick ==
    /\ now < MaxTime
    /\ now' = now + 1
    /\ ret' = [op |-> "tick"]
    /\ UNCHANGED <<config, cache, stats, live, calls, recency>>
    /\ UNCHANGED notCacheVars

Next ==
    \/ \E k \in Keys : Get(k)
    \/ \E k \in Keys, data \in {<<>>, <<Record1>>} : Put(k, data)
    \/ Clear
    \/ GetStats
    \/ EvictExpired
    \/ Tick

Spec == Init /\ [][Next]_vars

(***************************************************************************)
(* ConcSpec: QueryCache called by concurrent tasks. Each await of a lock   *)
(* and each access to the data under the locks is a step of its own.       *)
(***************************************************************************)
ConcKeys == {CacheKeyNew("History", d, "2024-01-10", None, None) : d \in {"2024-01-01", "2024-01-02"}}

\* RwLock::write is granted when nobody holds the lock
CanWrite(l) == l.writer = 0 /\ l.readers = {}

Goto(p, label) == pc' = [pc EXCEPT ![p] = label]

ConcInit ==
    /\ KeyParked
    /\ ConcNew
    /\ QueryNew
    /\ ProcParked
    /\ \E cfg \in [max_entries : {1}, ttl_seconds : {1}] : CacheNew(cfg)

\* a caller starts one of the operations
CallGet(p, k) ==
    /\ pc[p] = "idle"
    \* the gets counted and those called and not yet counted
    /\ stats.hits + stats.misses
         + Cardinality({q \in Procs : local[q].op = "get" /\ pc[q] # "done"})
         < MaxGets
    /\ Goto(p, "get_lock")
    /\ local' = [local EXCEPT ![p] = [op |-> "get", key |-> k]]
    /\ UNCHANGED <<config, cache, stats, now, cacheLock, statsLock, abs>>
    /\ UNCHANGED notConcVars

\* put starts with CacheEntry::new, which reads the clock before the cache
\* lock is awaited
CallPut(p, k, data) ==
    /\ pc[p] = "idle"
    /\ Goto(p, "put_lock")
    /\ local' = [local EXCEPT ![p] =
                    [op |-> "put", key |-> k,
                     entry |-> CacheEntryNew(data, config.ttl_seconds, now)]]
    /\ UNCHANGED <<config, cache, stats, now, cacheLock, statsLock, abs>>
    /\ UNCHANGED notConcVars

CallClear(p) ==
    /\ pc[p] = "idle"
    /\ Goto(p, "clear_lock")
    /\ local' = [local EXCEPT ![p] = [op |-> "clear"]]
    /\ UNCHANGED <<config, cache, stats, now, cacheLock, statsLock, abs>>
    /\ UNCHANGED notConcVars

CallGetStats(p) ==
    /\ pc[p] = "idle"
    /\ Goto(p, "stats_lock_cache")
    /\ local' = [local EXCEPT ![p] = [op |-> "stats"]]
    /\ UNCHANGED <<config, cache, stats, now, cacheLock, statsLock, abs>>
    /\ UNCHANGED notConcVars

CallEvictExpired(p) ==
    /\ pc[p] = "idle"
    /\ Goto(p, "evict_lock")
    /\ local' = [local EXCEPT ![p] = [op |-> "evict"]]
    /\ UNCHANGED <<config, cache, stats, now, cacheLock, statsLock, abs>>
    /\ UNCHANGED notConcVars

\* self.cache.write().await of get, put, clear and evict_expired
LockCacheWrite(p) ==
    /\ pc[p] \in {"get_lock", "put_lock", "clear_lock", "evict_lock"}
    /\ CanWrite(cacheLock)
    /\ cacheLock' = [writer |-> p, readers |-> {}]
    /\ Goto(p, CASE pc[p] = "get_lock" -> "get_lookup"
                 [] pc[p] = "put_lock" -> "put_insert"
                 [] pc[p] = "clear_lock" -> "clear_cache"
                 [] pc[p] = "evict_lock" -> "evict_sweep")
    /\ UNCHANGED <<config, cache, stats, now, statsLock, local, abs>>
    /\ UNCHANGED notConcVars

\* get: cache.get(key), is_expired and cache.pop(key) under the cache lock
GetLookup(p) ==
    /\ pc[p] = "get_lookup"
    /\ LET r == CacheGet(cache, local[p].key, now)
           a == CacheGet(abs.cache, local[p].key, now)
       IN  /\ cache' = r.cache
           /\ local' = [local EXCEPT ![p] =
                           [op |-> "get", key |-> local[p].key, value |-> r.value,
                            expect |-> a.value]]
           /\ abs' = [cache |-> a.cache, stats |-> StatsAfterGet(abs.stats, a.value)]
    /\ Goto(p, "get_stats_lock")
    /\ UNCHANGED <<config, stats, now, cacheLock, statsLock>>
    /\ UNCHANGED notConcVars

\* self.stats.write().await of get and clear, taken while the cache lock is held
LockStatsWrite(p) ==
    /\ pc[p] \in {"get_stats_lock", "clear_stats_lock"}
    /\ CanWrite(statsLock)
    /\ statsLock' = [writer |-> p, readers |-> {}]
    /\ Goto(p, IF pc[p] = "get_stats_lock" THEN "get_count" ELSE "clear_stats")
    /\ UNCHANGED <<config, cache, stats, now, cacheLock, local, abs>>
    /\ UNCHANGED notConcVars

\* get that returns without dropping the guard of the counters
GetCountKeepsGuard(p) ==
    /\ pc[p] = "get_count"
    /\ stats' = StatsAfterGet(stats, local[p].value)
    /\ cacheLock' = IF cacheLock.writer = p THEN FreeLock ELSE cacheLock
    /\ local' = [local EXCEPT ![p] = [op |-> "get", key |-> local[p].key,
                                      result |-> local[p].value,
                                      expect |-> local[p].expect]]
    /\ Goto(p, "done")
    /\ UNCHANGED <<config, cache, now, statsLock, abs>>
    /\ UNCHANGED notConcVars

\* get: stats.hits += 1 or stats.misses += 1, then both guards are dropped
\* and the value is returned
GetCount(p) ==
    /\ pc[p] = "get_count"
    /\ stats' = StatsAfterGet(stats, local[p].value)
    /\ statsLock' = FreeLock
    /\ cacheLock' = IF cacheLock.writer = p THEN FreeLock ELSE cacheLock
    /\ local' = [local EXCEPT ![p] = [op |-> "get", key |-> local[p].key,
                                      result |-> local[p].value,
                                      expect |-> local[p].expect]]
    /\ Goto(p, "done")
    /\ UNCHANGED <<config, cache, now, abs>>
    /\ UNCHANGED notConcVars

\* put: cache.put(key, entry), then the guard is dropped
PutInsert(p) ==
    /\ pc[p] = "put_insert"
    /\ cache' = LruPut(cache, LruCap(config.max_entries), local[p].key, local[p].entry)
    /\ abs' = [abs EXCEPT !.cache = LruPut(abs.cache, LruCap(config.max_entries),
                                           local[p].key, local[p].entry)]
    /\ cacheLock' = FreeLock
    /\ local' = [local EXCEPT ![p] = [op |-> "put", result |-> "unit", expect |-> "unit"]]
    /\ Goto(p, "done")
    /\ UNCHANGED <<config, stats, now, statsLock>>
    /\ UNCHANGED notConcVars

\* mutant of ClearCache: the cache guard is dropped before the counters are reset
ClearCacheThenUnlock(p) ==
    /\ pc[p] = "clear_cache"
    /\ cache' = <<>>
    /\ cacheLock' = FreeLock
    /\ abs' = [cache |-> <<>>, stats |-> StatsAfterClear(abs.stats)]
    /\ Goto(p, "clear_stats_lock")
    /\ UNCHANGED <<config, stats, now, statsLock, local>>
    /\ UNCHANGED notConcVars

\* clear: cache.clear()
ClearCache(p) ==
    /\ pc[p] = "clear_cache"
    /\ cache' = <<>>
    /\ abs' = [cache |-> <<>>, stats |-> StatsAfterClear(abs.stats)]
    /\ Goto(p, "clear_stats_lock")
    /\ UNCHANGED <<config, stats, now, cacheLock, statsLock, local>>
    /\ UNCHANGED notConcVars

\* clear: stats.hits = 0; stats.misses = 0, then both guards are dropped
ClearStats(p) ==
    /\ pc[p] = "clear_stats"
    /\ stats' = StatsAfterClear(stats)
    /\ statsLock' = FreeLock
    /\ cacheLock' = IF cacheLock.writer = p THEN FreeLock ELSE cacheLock
    /\ local' = [local EXCEPT ![p] = [op |-> "clear", result |-> "unit", expect |-> "unit"]]
    /\ Goto(p, "done")
    /\ UNCHANGED <<config, cache, now, abs>>
    /\ UNCHANGED notConcVars

\* evict_expired: collect the expired keys and pop each of them, then the
\* guard is dropped
EvictSweep(p) ==
    /\ pc[p] = "evict_sweep"
    /\ cache' = CacheEvictExpired(cache, now)
    /\ abs' = [abs EXCEPT !.cache = CacheEvictExpired(abs.cache, now)]
    /\ cacheLock' = FreeLock
    /\ local' = [local EXCEPT ![p] =
                    [op |-> "evict", result |-> "unit", expect |-> "unit",
                     count |-> Len(cache) - Len(CacheEvictExpired(cache, now))]]
    /\ Goto(p, "done")
    /\ UNCHANGED <<config, stats, now, statsLock>>
    /\ UNCHANGED notConcVars

\* get_stats: self.cache.read().await
StatsLockCache(p) ==
    /\ pc[p] = "stats_lock_cache"
    /\ cacheLock.writer = 0
    /\ cacheLock' = [cacheLock EXCEPT !.readers = @ \cup {p}]
    /\ Goto(p, "stats_lock_stats")
    /\ UNCHANGED <<config, cache, stats, now, statsLock, local, abs>>
    /\ UNCHANGED notConcVars

\* get_stats: self.stats.read().await
StatsLockStats(p) ==
    /\ pc[p] = "stats_lock_stats"
    /\ statsLock.writer = 0
    /\ statsLock' = [statsLock EXCEPT !.readers = @ \cup {p}]
    /\ Goto(p, "stats_read_counters")
    /\ UNCHANGED <<config, cache, stats, now, cacheLock, local, abs>>
    /\ UNCHANGED notConcVars

\* get_stats: stats.hits and stats.misses are read
StatsReadCounters(p) ==
    /\ pc[p] = "stats_read_counters"
    /\ local' = [local EXCEPT ![p] =
                    [op |-> "stats", hits |-> stats.hits, misses |-> stats.misses,
                     expect |-> StatsSnapshot(abs.cache, abs.stats, config)]]
    /\ Goto(p, "stats_read_cache")
    /\ UNCHANGED <<config, cache, stats, now, cacheLock, statsLock, abs>>
    /\ UNCHANGED notConcVars

\* get_stats: cache.iter() and cache.len() are read, the result is built and
\* both guards are dropped
StatsReadCache(p) ==
    /\ pc[p] = "stats_read_cache"
    /\ local' = [local EXCEPT ![p] =
                    [op |-> "stats",
                     result |-> StatsSnapshot(cache, [hits |-> local[p].hits,
                                                      misses |-> local[p].misses], config),
                     expect |-> local[p].expect]]
    /\ cacheLock' = [cacheLock EXCEPT !.readers = @ \ {p}]
    /\ statsLock' = [statsLock EXCEPT !.readers = @ \ {p}]
    /\ Goto(p, "done")
    /\ UNCHANGED <<config, cache, stats, now, abs>>
    /\ UNCHANGED notConcVars

\* the caller has its result and may call again
Return(p) ==
    /\ pc[p] = "done"
    /\ Goto(p, "idle")
    /\ local' = [local EXCEPT ![p] = [op |-> "none"]]
    /\ UNCHANGED <<config, cache, stats, now, cacheLock, statsLock, abs>>
    /\ UNCHANGED notConcVars

\* time passes
ConcTick ==
    /\ now < MaxTime
    /\ now' = now + 1
    /\ UNCHANGED <<config, cache, stats, cacheLock, statsLock, pc, local, abs>>
    /\ UNCHANGED notConcVars

ConcNext ==
    \/ \E p \in Procs, k \in ConcKeys : CallGet(p, k)
    \/ \E p \in Procs, k \in ConcKeys, data \in {<<Record1>>} : CallPut(p, k, data)
    \/ \E p \in Procs : CallClear(p)
    \/ \E p \in Procs : CallGetStats(p)
    \/ \E p \in Procs : CallEvictExpired(p)
    \/ \E p \in Procs : LockCacheWrite(p)
    \/ \E p \in Procs : GetLookup(p)
    \/ \E p \in Procs : LockStatsWrite(p)
    \/ \E p \in Procs : GetCount(p)
    \/ \E p \in Procs : PutInsert(p)
    \/ \E p \in Procs : ClearCache(p)
    \/ \E p \in Procs : ClearStats(p)
    \/ \E p \in Procs : EvictSweep(p)
    \/ \E p \in Procs : StatsLockCache(p)
    \/ \E p \in Procs : StatsLockStats(p)
    \/ \E p \in Procs : StatsReadCounters(p)
    \/ \E p \in Procs : StatsReadCache(p)
    \/ \E p \in Procs : Return(p)
    \/ ConcTick

ConcSpec == ConcInit /\ [][ConcNext]_vars

(***************************************************************************)
(* SweepSpec: the cache of AppState::new and create_cache_with_cleanup.    *)
(* Task 2 is the spawned task, which calls evict_expired at every tick of  *)
(* its interval and holds nothing but the Arc of the cache; task 1 stands  *)
(* for the commands that use the cache.  The connection pool is never      *)
(* initialized.                                                            *)
(***************************************************************************)
SweepNext ==
    \/ \E k \in ConcKeys : CallGet(1, k)
    \/ \E k \in ConcKeys, data \in {<<Record1>>} : CallPut(1, k, data)
    \/ CallClear(1)
    \/ CallGetStats(1)
    \/ CallEvictExpired(2)
    \/ \E p \in Procs : LockCacheWrite(p)
    \/ GetLookup(1)
    \/ LockStatsWrite(1)
    \/ GetCount(1)
    \/ PutInsert(1)
    \/ ClearCache(1)
    \/ ClearStats(1)
    \/ EvictSweep(2)
    \/ StatsLockCache(1)
    \/ StatsLockStats(1)
    \/ StatsReadCounters(1)
    \/ StatsReadCache(1)
    \/ \E p \in Procs : Return(p)
    \/ ConcTick

\* The runtime keeps running the spawned task: the interval ticks again
\* while the task waits for it, and the task continues when it holds the
\* lock.  The write lock of tokio's RwLock is granted in the order of the
\* requests, so a task that waits for it gets it once the holders have left
\* (strong fairness); a task that holds a lock runs on until it releases it.
SweepSpec ==
    /\ ConcInit
    /\ [][SweepNext]_vars
    /\ WF_vars(CallEvictExpired(2))
    /\ SF_vars(LockCacheWrite(2))
    /\ WF_vars(EvictSweep(2) \/ Return(2))
    /\ WF_vars(GetLookup(1) \/ LockStatsWrite(1) \/ GetCount(1) \/ PutInsert(1)
               \/ ClearCache(1) \/ ClearStats(1) \/ StatsLockStats(1)
               \/ StatsReadCounters(1) \/ StatsReadCache(1))

(***************************************************************************)
(* KeySpec: two calls of CacheKey::new on bounded arguments                *)
(***************************************************************************)
KeyInit ==
    LET \* models::DataProcessingConfig, with the method names "", "m" and "mm", each
        \* a prefix of the next
        ProcessingConfigs ==
            LET Methods == {<<>>, <<109>>, <<109, 109>>}
            IN  [outlier_removal : [enabled : BOOLEAN, method : Methods],
                 resample : [enabled : BOOLEAN, interval : {60, 256}, method : Methods],
                 smoothing : [enabled : BOOLEAN, method : Methods, window : {5, 1280}]]
        \* the configs that differ from c in at most one sub-field
        OneFieldVariants(c) ==
            LET Methods == {<<>>, <<109>>, <<109, 109>>}
            IN  {[c EXCEPT !.outlier_removal.enabled = b] : b \in BOOLEAN}
                \cup {[c EXCEPT !.outlier_removal.method = m] : m \in Methods}
                \cup {[c EXCEPT !.resample.enabled = b] : b \in BOOLEAN}
                \cup {[c EXCEPT !.resample.interval = i] : i \in {60, 256}}
                \cup {[c EXCEPT !.resample.method = m] : m \in Methods}
                \cup {[c EXCEPT !.smoothing.enabled = b] : b \in BOOLEAN}
                \cup {[c EXCEPT !.smoothing.method = m] : m \in Methods}
                \cup {[c EXCEPT !.smoothing.window = w] : w \in {5, 1280}}
        \* two tag filters with the same table, time range and config
        TagKeyInputs ==
            LET TagArgs == {None} \cup {Some(t) : t \in SeqsUpTo(TagNames, MaxTags)}
            IN  {[table |-> t, start_time |-> s, end_time |-> e,
                  tagsA |-> ta, tagsB |-> tb, cfgA |-> c, cfgB |-> c] :
                    t \in {"History", "TagDatabase"}, s \in {"2024-01-01", "2024-01-02"},
                    e \in {"2024-01-10"},
                    ta \in TagArgs, tb \in TagArgs, c \in {None, Some(BaseConfig)}}
    IN  /\ \/ keyIn \in TagKeyInputs
           \/ \E c \in ProcessingConfigs : \E d \in OneFieldVariants(c) :
                 keyIn = ConfigKeyInput(c, d)
        /\ keyOut = [built |-> FALSE]
        /\ CacheNew([max_entries |-> 1, ttl_seconds |-> 1])
        /\ ConcNew
        /\ QueryNew
        /\ ProcParked

BuildKeys ==
    /\ ~keyOut.built
    /\ keyOut' = [built |-> TRUE,
                  a |-> CacheKeyNew(keyIn.table, keyIn.start_time, keyIn.end_time,
                                    keyIn.tagsA, keyIn.cfgA),
                  b |-> CacheKeyNew(keyIn.table, keyIn.start_time, keyIn.end_time,
                                    keyIn.tagsB, keyIn.cfgB)]
    /\ UNCHANGED keyIn
    /\ UNCHANGED <<config, cache, stats, now, ret, live, calls, recency,
                   cacheLock, statsLock, pc, local, abs, svc, puts, procIn,
                   procOut, pool, warm, tagGroups>>

KeySpec == KeyInit /\ [][BuildKeys]_vars

(***************************************************************************)
(* Claims about CacheKey::new (checked under KeySpec)                      *)
(***************************************************************************)
\* C1: the key does not depend on the order of the tags; the key of an
\* absent tag filter equals the key of an empty tag list and differs from
\* the key of every non-empty tag list.
C1_KeyOrderIndependent ==
    LET TagList(arg) == IF arg.some THEN arg.val ELSE <<>>
        \* the two tag lists hold the same tags the same number of times
        SameTagBag(x, y) ==
            LET TagCount(arg, t) ==
                    Cardinality({i \in 1..Len(TagList(arg)) : TagList(arg)[i] = t})
            IN  \A t \in TagNames : TagCount(x, t) = TagCount(y, t)
    IN  (keyOut.built /\ keyIn.cfgA = keyIn.cfgB) =>
            /\ (keyIn.tagsA.some /\ keyIn.tagsB.some /\ SameTagBag(keyIn.tagsA, keyIn.tagsB))
                  => keyOut.a = keyOut.b
            /\ (keyIn.tagsA = None /\ keyIn.tagsB = Some(<<>>)) => keyOut.a = keyOut.b
            /\ (keyIn.tagsA = None /\ keyIn.tagsB.some /\ keyIn.tagsB.val # <<>>)
                  => keyOut.a # keyOut.b

C1_Witness ==
    /\ keyOut.built
    /\ keyIn.cfgA = keyIn.cfgB
    /\ keyIn.tagsA = Some(<<<<97>>, <<98>>>>)
    /\ keyIn.tagsB = Some(<<<<98>>, <<97>>>>)
    /\ keyOut.a = keyOut.b
    /\ keyOut.a.tags = <<<<97>>, <<98>>>>

\* C2: two requests with the same table, start, end and config whose tag
\* lists hold the same set of tags (whatever the order and the number of
\* repetitions) produce equal keys.
C2_SameTagSetSameKey ==
    LET TagList(arg) == IF arg.some THEN arg.val ELSE <<>>
        TagSet(arg) == {TagList(arg)[i] : i \in 1..Len(TagList(arg))}
    IN  (keyOut.built /\ keyIn.cfgA = keyIn.cfgB /\ TagSet(keyIn.tagsA) = TagSet(keyIn.tagsB))
            => keyOut.a = keyOut.b

C4_GetReturnsLastPut ==
    ret.op = "get" =>
        ret.value = IF ret.live THEN Some(live[ret.key].val.data) ELSE None

C4_Witness ==
    /\ ret.op = "get"
    /\ ret.value = Some(<<Record1>>)
    /\ now >= 1
    /\ Len(cache) >= 2

\* C5: when clear returns the cache holds no entry and both counters are 0,
\* and a get issued next returns None for every key.
C5_ClearEmpties ==
    ret.op = "clear" =>
        /\ cache = <<>>
        /\ stats.hits = 0 /\ stats.misses = 0
        /\ \A k \in Keys : CacheGet(cache, k, now).value = None

C5_Witness ==
    /\ ret.op = "clear"
    /\ ret.removed >= 2
    /\ ret.counted >= 1
    /\ cache = <<>>
    /\ stats = [hits |-> 0, misses |-> 0]

\* C6: a put of a new key into a cache that holds as many entries as its
\* capacity removes exactly one entry, the one accessed (put or get hit)
\* longest ago, and keeps the other entries and the new key.
C6_LruEviction ==
    (/\ ret.op = "put"
     /\ ret.key \notin ret.before
     /\ Cardinality(ret.before) = LruCap(config.max_entries))
        => /\ Cardinality(ret.evicted) = 1
           /\ ret.evicted = ret.oldest
           /\ LruKeys(cache) = (ret.before \ ret.oldest) \cup {ret.key}
           /\ \A i \in 1..Len(cache) : live[cache[i].key] = Some([data |-> cache[i].entry.data,
                                                                  at |-> cache[i].entry.created_at])

C6_Witness ==
    /\ ret.op = "put"
    /\ config.max_entries = 2
    /\ Cardinality(ret.before) = 2
    /\ ret.key \notin ret.before
    /\ ret.evicted = ret.oldest
    /\ ret.evicted # {}
    /\ stats.hits >= 1
    /\ Len(cache) = 2

\* C7: an entry put at time t with TTL d is returned by get up to t+d and
\* never after: a get after t+d returns None and removes it, evict_expired
\* removes it so that it is not counted in stats().entries; evict_expired
\* removes nothing else.
C7_TtlExpiry ==
    /\ (ret.op = "get" /\ ret.live) => ret.value.some
    /\ (ret.op = "get" /\ ret.stale) =>
          (ret.value = None /\ ret.key \notin LruKeys(cache))
    /\ ret.op = "evict" =>
          /\ LruKeys(cache) \cap ret.stale = {}
          /\ LruKeys(cache) = {k \in Keys : LiveNow(k)}
          /\ StatsSnapshot(cache, stats, config).entries
                = Cardinality({k \in Keys : LiveNow(k)})

C7_Witness ==
    /\ ret.op = "evict"
    /\ ret.stale # {}
    /\ \E k2 \in Keys :
          /\ LiveNow(k2) /\ k2 \in LruKeys(cache)
          /\ now - live[k2].val.at = config.ttl_seconds

\* C8: every get increments exactly one counter, hits when it returns a
\* payload and misses when it returns None, and no other operation changes
\* a counter: hits + misses is the number of gets since creation or the
\* last clear.
C8_CountersMatchGets ==
    /\ stats.hits = calls.some
    /\ stats.misses = calls.none
    /\ stats.hits + stats.misses = calls.some + calls.none

C8_Witness ==
    /\ ret.op = "get"
    /\ ret.stale
    /\ stats.hits = 1
    /\ stats.misses = 1
    /\ calls = [some |-> 1, none |-> 1]

\* C9: the number of entries held never exceeds the configured max_entries
\* (stats().entries <= stats().max_entries), for every max_entries
\* including 0.
C9_EntriesWithinMax ==
    /\ Len(cache) <= config.max_entries
    /\ ret.op = "stats" => ret.value.entries <= ret.value.max_entries


(***************************************************************************)
(* Claims about QueryCache, concurrent callers (checked under ConcSpec)    *)
(***************************************************************************)
\* C10: under every interleaving each call behaves as if it ran atomically
\* at one point between its start and its return: what a call returns is
\* what the same call returns as one atomic step at its linearization
\* point, the data left when no call holds the cache lock is the data the
\* atomic steps leave, and get_stats returns the entry count and the
\* counters of one and the same state.
C10_Linearizable ==
    /\ \A p \in Procs : pc[p] = "done" => local[p].result = local[p].expect
    /\ CanWrite(cacheLock) => (cache = abs.cache /\ stats = abs.stats)
    /\ \A p \in Procs :
          (pc[p] = "done" /\ local[p].op = "stats") =>
              /\ local[p].result.entries = local[p].expect.entries
              /\ local[p].result.hits = local[p].expect.hits
              /\ local[p].result.misses = local[p].expect.misses

C10_Witness ==
    \E p \in Procs, q \in Procs :
        /\ p # q
        /\ pc[p] = "done" /\ local[p].op = "stats"
        /\ local[p].result.entries = 1
        /\ local[p].result.hits = 1
        /\ local[p].result.misses = 1
        /\ pc[q] = "clear_lock"


(***************************************************************************)
(* Data processing (src-tauri/src/processing): values                      *)
(*                                                                         *)
(* An f64 is represented by the rational number it stands for, as a        *)
(* fraction [n, d] in lowest terms with d > 0; rounding is not modelled.   *)
(* A date_time string is represented by what parse_from_str makes of it:  *)
(* [ms, form] with the instant in epoch milliseconds and the form          *)
(* "seconds" (%Y-%m-%dT%H:%M:%S), "millis" (...%.3f) or "invalid".         *)
(* A tag name is a sequence of UTF-8 bytes.                                *)
(***************************************************************************)
\* the greatest common divisor of |a| and b, for b >= 0
RECURSIVE Gcd(_, _)
Gcd(a, b) == IF b = 0 THEN (IF a < 0 THEN -a ELSE a) ELSE Gcd(b, a % b)

RatNorm(n, d) == \* d > 0
    LET g == Gcd(n, d) IN [n |-> n \div g, d |-> d \div g]

RatInt(k) == [n |-> k, d |-> 1]

RatAdd(x, y) ==
    LET l == (x.d \div Gcd(x.d, y.d)) * y.d
    IN  RatNorm(x.n * (l \div x.d) + y.n * (l \div y.d), l)

RatMul(x, y) ==
    LET g1 == Gcd(x.n, y.d)
        g2 == Gcd(y.n, x.d)
    IN  RatNorm((x.n \div g1) * (y.n \div g2), (x.d \div g2) * (y.d \div g1))

\* x / k for an integer k > 0
RatDivInt(x, k) ==
    LET g == Gcd(x.n, k) IN RatNorm(x.n \div g, x.d * (k \div g))

\* the instant of a date_time string, None when neither format parses it
ParseTimestampMs(date_time) ==
    IF date_time.form = "invalid" THEN None ELSE Some(date_time.ms)

\* dt.format("%Y-%m-%dT%H:%M:%S%.3f")
FormatTimestampMs(ms) == [ms |-> ms, form |-> "millis"]

\* HistoryRecord::new
HistoryRecordNew(date_time, tag_name, tag_val, tag_quality) ==
    [date_time |-> date_time, tag_name |-> tag_name, tag_val |-> tag_val,
     tag_quality |-> tag_quality]

(* Vec::sort_by and the sorts of the frames are stable sorts; the model    *)
(* sorts a list of [key, item] by the lexicographic order of the keys with *)
(* a merge sort, which keeps items with equal keys in their order.         *)

\* the number of elements of L among the first k of the stable merge of the
\* sorted lists L and R, found by bisection of lo..hi
RECURSIVE TakeLeft(_, _, _, _, _)
TakeLeft(L, R, k, lo, hi) ==
    IF lo = hi THEN lo
    ELSE LET i == (lo + hi) \div 2
         IN  IF k - i > Len(R) THEN TakeLeft(L, R, k, i + 1, hi)
             ELSE IF k - i >= 1 /\ ~StrLess(R[k - i].key, L[i + 1].key)
                  THEN TakeLeft(L, R, k, i + 1, hi)
                  ELSE TakeLeft(L, R, k, lo, i)

\* the stable merge sort of keyed[lo..hi]
RECURSIVE SortRangeByKey(_, _, _)
SortRangeByKey(keyed, lo, hi) ==
    IF lo > hi THEN <<>>
    ELSE IF lo = hi THEN <<keyed[lo]>>
    ELSE LET mid == (lo + hi) \div 2
             L == SortRangeByKey(keyed, lo, mid)
             R == SortRangeByKey(keyed, mid + 1, hi)
             FromLeft(k) == TakeLeft(L, R, k, 0, IF k < Len(L) THEN k ELSE Len(L))
         IN  [k \in 1..(Len(L) + Len(R)) |->
                 LET i == FromLeft(k)
                 IN  IF i > FromLeft(k - 1) THEN L[i] ELSE R[k - i]] \o <<>>

Items(keyed) == [i \in 1..Len(keyed) |-> keyed[i].item]

\* the runs of equal keys of a sorted list, each with its key and the items
\* in their order
Runs(sorted) ==
    LET starts == SelectSeq([i \in 1..Len(sorted) |-> i],
                      LAMBDA i : i = 1 \/ sorted[i].key # sorted[i - 1].key)
    IN  [j \in 1..Len(starts) |->
            LET lo == starts[j]
                hi == IF j < Len(starts) THEN starts[j + 1] - 1 ELSE Len(sorted)
            IN  [key |-> sorted[lo].key,
                 items |-> [m \in 1..(hi - lo + 1) |-> sorted[lo + m - 1].item]]]

\* sort_by(|a, b| a.date_time.cmp(&b.date_time)).  String::cmp on date_time
\* is the lexicographic order of a key: ISO strings order as their instants,
\* a string without the fraction is a prefix of the one with it, and a
\* string that is no date ("invalid") follows every string that starts with
\* a digit
SortByDateTime(records) ==
    LET DateTimeKey(date_time) ==
            CASE date_time.form = "seconds" -> <<0, date_time.ms, 0>>
              [] date_time.form = "millis" -> <<0, date_time.ms, 1>>
              [] OTHER -> <<1>>
        keyed == [i \in 1..Len(records) |->
                     [key |-> DateTimeKey(records[i].date_time),
                      item |-> records[i]]]
    IN  Items(SortRangeByKey(keyed, 1, Len(keyed)))

\* iter().sum::<f64>() of vals[lo..hi]
RECURSIVE SumRange(_, _, _)
SumRange(vals, lo, hi) ==
    IF lo > hi THEN RatInt(0)
    ELSE IF lo = hi THEN vals[lo]
    ELSE LET mid == (lo + hi) \div 2
         IN  RatAdd(SumRange(vals, lo, mid), SumRange(vals, mid + 1, hi))

\* records.iter().map(|r| r.tag_val).collect()
Values(records) == [i \in 1..Len(records) |-> records[i].tag_val]

\* the arithmetic mean of the values of a non-empty list
Mean(vals) == RatDivInt(SumRange(vals, 1, Len(vals)), Len(vals))

\* the records of one tag, in input order (HashMap entry(tag).push)
TagGroup(records, tag) == SelectSeq(records, LAMBDA r : r.tag_name = tag)

TagsOf(records) == {records[i].tag_name : i \in 1..Len(records)}

\* the orders in which a HashMap may hand out the groups of the tags
RECURSIVE Orders(_)
Orders(S) ==
    IF S = {} THEN {<<>>}
    ELSE UNION {{<<t>> \o o : o \in Orders(S \ {t})} : t \in S}

(***************************************************************************)
(* Data processing: the row-wise strategy (processing/native.rs, mod.rs)   *)
(***************************************************************************)
\* mean - 3.0 * std_dev <= v <= mean + 3.0 * std_dev with std_dev the square
\* root of variance: the distance of v from the mean is at most three
\* standard deviations, compared by the squares
WithinThreeSigma(v, mean, variance) ==
    LET dev == RatAdd(v, [n |-> -mean.n, d |-> mean.d])
        x == RatMul(dev, dev)
        y == RatMul(RatInt(9), variance)
        l == (x.d \div Gcd(x.d, y.d)) * y.d
    IN  x.n * (l \div x.d) <= y.n * (l \div y.d)

\* mutant of RemoveOutliers: the rule is applied again to the survivors
RECURSIVE RemoveOutliersRepeated(_)
RemoveOutliersRepeated(records) ==
    IF Len(records) < 3 THEN records
    ELSE LET values == Values(records)
             n == Len(values)
             mean == Mean(values)
             squares == [i \in 1..n |->
                            LET dev == RatAdd(values[i], [n |-> -mean.n, d |-> mean.d])
                            IN  RatMul(dev, dev)]
             variance == Mean(squares)
             result == SelectSeq(records,
                           LAMBDA r : WithinThreeSigma(r.tag_val, mean, variance))
         IN  IF Len(result) = n THEN result ELSE RemoveOutliersRepeated(result)

\* remove_outliers: squares are the (v - mean).powi(2), variance their sum
\* divided by n
RemoveOutliers(records) ==
    IF Len(records) < 3 THEN records
    ELSE LET values == Values(records)
             n == Len(values)
             mean == Mean(values)
             squares == [i \in 1..n |->
                            LET dev == RatAdd(values[i], [n |-> -mean.n, d |-> mean.d])
                            IN  RatMul(dev, dev)]
             variance == Mean(squares)
         IN  SelectSeq(records,
                 LAMBDA r : WithinThreeSigma(r.tag_val, mean, variance))

\* (timestamp_ms / interval_ms) * interval_ms on i64: the quotient is
\* truncated towards zero
WindowKey(timestamp_ms, interval_ms) ==
    (IF timestamp_ms >= 0 THEN timestamp_ms \div interval_ms
     ELSE -((-timestamp_ms) \div interval_ms)) * interval_ms

\* resample_data, for interval > 0 (interval = 0 divides by zero): the
\* records that parse are collected per window key, every window gives one
\* record, and the records are sorted by date_time
ResampleData(records, interval) ==
    IF records = <<>> THEN records
    ELSE LET interval_ms == interval * 1000
             parsed == SelectSeq(records,
                          LAMBDA r : ParseTimestampMs(r.date_time).some)
             keyed ==
                 [i \in 1..Len(parsed) |->
                     [key |-> <<WindowKey(ParseTimestampMs(parsed[i].date_time).val,
                                          interval_ms)>>,
                      item |-> parsed[i]]]
             windows == Runs(SortRangeByKey(keyed, 1, Len(keyed)))
         IN  SortByDateTime(
                 [j \in 1..Len(windows) |->
                     LET window_key == windows[j].key[1]
                         window_records == windows[j].items
                     IN  HistoryRecordNew(FormatTimestampMs(window_key),
                                          window_records[1].tag_name,
                                          Mean(Values(window_records)),
                                          window_records[1].tag_quality)])

\* smooth_data with a window that ends at the point itself
SmoothDataTrailing(records, window) ==
    IF Len(records) < window \/ window < 2 THEN records
    ELSE LET values == Values(records)
             half == window \div 2
         IN  [j \in 1..Len(values) |->
                 LET start == IF j - half < 1 THEN 1 ELSE j - half
                 IN  [records[j] EXCEPT
                         !.tag_val = RatDivInt(SumRange(values, start, j),
                                               j - start + 1)]]

\* smooth_data
SmoothData(records, window) ==
    IF Len(records) < window \/ window < 2 THEN records
    ELSE LET values == Values(records)
             n == Len(values)
             half == window \div 2
         IN  [j \in 1..n |->
                 LET start == IF j - half < 1 THEN 1 ELSE j - half
                     end == IF j + half > n THEN n ELSE j + half
                 IN  [records[j] EXCEPT
                         !.tag_val = RatDivInt(SumRange(values, start, end),
                                               end - start + 1)]]

\* the groups of the tags one after the other (result.extend)
RECURSIVE ExtendAll(_)
ExtendAll(groups) ==
    IF groups = <<>> THEN <<>> ELSE Head(groups) \o ExtendAll(Tail(groups))

\* downsample, for max_points_per_tag > 0; order is the iteration order of
\* tag_groups.  Of a tag with more records than the cap the records at the
\* indices i with i % step = 0 are kept, step = count / max_points_per_tag
Downsample(records, max_points_per_tag, order) ==
    IF records = <<>> THEN records
    ELSE LET Kept(tag) ==
                 LET tag_records == TagGroup(records, tag)
                     count == Len(tag_records)
                     step == count \div max_points_per_tag
                 IN  IF count <= max_points_per_tag THEN tag_records
                     ELSE [k \in 1..((count - 1) \div step + 1) |->
                              tag_records[(k - 1) * step + 1]]
         IN  SortByDateTime(ExtendAll([i \in 1..Len(order) |-> Kept(order[i])]))

\* process_tag_data
ProcessTagData(records, cfg) ==
    LET r1 == IF cfg.outlier_removal.enabled
              THEN RemoveOutliers(records) ELSE records
        r2 == IF cfg.resample.enabled /\ cfg.resample.interval > 0
              THEN ResampleData(r1, cfg.resample.interval) ELSE r1
    IN  IF cfg.smoothing.enabled /\ cfg.smoothing.window > 1
        THEN SmoothData(r2, cfg.smoothing.window) ELSE r2

\* process_data; order is the iteration order of tag_groups
ProcessData(records, cfg, order) ==
    IF records = <<>> THEN records
    ELSE LET Processed(tag) == ProcessTagData(TagGroup(records, tag), cfg)
         IN  SortByDateTime(ExtendAll([i \in 1..Len(order) |->
                                          Processed(order[i])]))

(***************************************************************************)
(* Data processing: the vectorized strategy (processing/polars_impl.rs)    *)
(*                                                                         *)
(* A DataFrame is the sequence of its rows [datetime, tag_name, tag_val,   *)
(* tag_quality] with datetime in epoch milliseconds.                       *)
(***************************************************************************)
\* the tag names of a set in ascending order
RECURSIVE TagsAscending(_)
TagsAscending(S) ==
    IF S = {} THEN <<>>
    ELSE LET m == CHOOSE x \in S : \A y \in S \ {x} : StrLess(x, y)
         IN  <<m>> \o TagsAscending(S \ {m})

\* resample_data_polars: one row per (window, tag) with the mean of the
\* values and the first quality, sorted by window; order is the order in
\* which group_by hands out the tags of one window
ResampleDataPolars(df, interval_seconds, order) ==
    LET interval_ms == interval_seconds * 1000
        PlaceOf(tag) == CHOOSE i \in 1..Len(order) : order[i] = tag
        keyed == [i \in 1..Len(df) |->
                     [key |-> <<WindowKey(df[i].datetime, interval_ms),
                                PlaceOf(df[i].tag_name)>>,
                      item |-> df[i]]]
        buckets == Runs(SortRangeByKey(keyed, 1, Len(keyed)))
    IN  [j \in 1..Len(buckets) |->
            LET members == buckets[j].items
            IN  [datetime |-> buckets[j].key[1],
                 tag_name |-> members[1].tag_name,
                 tag_val |-> Mean(Values(members)),
                 tag_quality |-> members[1].tag_quality]]

\* process_unified_pipeline
ProcessUnifiedPipeline(df, cfg, order) ==
    LET \* remove_outliers_by_group: mean and std(1), the standard deviation with
        \* one delta degree of freedom, over the rows of the tag; std(1) of a single
        \* row is null, the filter predicate is then null and the row is dropped
        RemoveOutliersByGroup(frame) ==
            LET Keep(row) ==
                    LET vals == Values(TagGroup(frame, row.tag_name))
                        n == Len(vals)
                        mean == Mean(vals)
                        squares == [i \in 1..n |->
                                       LET dev == RatAdd(vals[i], [n |-> -mean.n, d |-> mean.d])
                                       IN  RatMul(dev, dev)]
                    IN  /\ n > 1
                        /\ WithinThreeSigma(row.tag_val, mean,
                               RatDivInt(SumRange(squares, 1, n), n - 1))
            IN  SelectSeq(frame, Keep)
        \* smooth_by_group: sort(["tag_name", "datetime"]) puts the rows of a tag
        \* together, ordered by instant, the tags ascending; rolling_mean over
        \* tag_name with window_size = window, min_periods = 1, center = true
        \* replaces the value of a row by the mean of the values of its tag at the
        \* offsets -(window - ceil(window / 2)) .. ceil(window / 2) - 1 that exist
        SmoothByGroup(frame, window) ==
            LET tags == TagsAscending(TagsOf(frame))
                Smoothed(tag) ==
                    LET group == TagGroup(frame, tag)
                        keyed == [i \in 1..Len(group) |->
                                     [key |-> <<group[i].datetime>>, item |-> group[i]]]
                        rows == Items(SortRangeByKey(keyed, 1, Len(keyed)))
                        vals == Values(rows)
                        n == Len(rows)
                        right == (window + 1) \div 2
                    IN  [j \in 1..n |->
                            LET start == IF j - (window - right) < 1 THEN 1
                                         ELSE j - (window - right)
                                end == IF j + right - 1 > n THEN n ELSE j + right - 1
                            IN  [rows[j] EXCEPT
                                    !.tag_val = RatDivInt(SumRange(vals, start, end),
                                                          end - start + 1)]]
            IN  ExtendAll([i \in 1..Len(tags) |-> Smoothed(tags[i])])
    IN  LET d1 == IF cfg.outlier_removal.enabled THEN RemoveOutliersByGroup(df) ELSE df
            intermediate_df == IF cfg.smoothing.enabled /\ cfg.smoothing.window > 1
                               THEN SmoothByGroup(d1, cfg.smoothing.window) ELSE d1
        IN  IF cfg.resample.enabled /\ cfg.resample.interval > 0
            THEN ResampleDataPolars(intermediate_df, cfg.resample.interval, order)
            ELSE intermediate_df

\* process_data_polars when no step of the engine returns an error
ProcessDataPolars(records, cfg, order) ==
    LET \* records_to_dataframe: a date_time that does not parse becomes 0
        RecordsToDataframe(recs) ==
            [i \in 1..Len(recs) |->
                LET ts == ParseTimestampMs(recs[i].date_time)
                IN  [datetime |-> IF ts.some THEN ts.val ELSE 0,
                     tag_name |-> recs[i].tag_name,
                     tag_val |-> recs[i].tag_val,
                     tag_quality |-> recs[i].tag_quality]]
        \* dataframe_to_records
        DataframeToRecords(frame) ==
            [i \in 1..Len(frame) |->
                HistoryRecordNew(FormatTimestampMs(frame[i].datetime), frame[i].tag_name,
                                 frame[i].tag_val, frame[i].tag_quality)]
    IN  IF records = <<>> THEN records
        ELSE SortByDateTime(DataframeToRecords(
                 ProcessUnifiedPipeline(RecordsToDataframe(records), cfg, order)))

(***************************************************************************)
(* Data processing: process_query_result                                   *)
(***************************************************************************)
\* the record count above which the vectorized strategy is tried
PolarsThreshold == 1000

\* the cap of the final downsampling
DownsampleCap == 5000

\* mutant of ProcessQueryResult: an error of the vectorized strategy is
\* returned to the caller
ProcessQueryResultNoFallback(records, cfg, polars_fails, order) ==
    IF cfg.some /\ Len(records) > PolarsThreshold /\ polars_fails
    THEN [ok |-> FALSE, err |-> "DataProcessing"]
    ELSE [ok |-> TRUE,
          val |-> Downsample(
                      IF ~cfg.some THEN records
                      ELSE IF Len(records) > PolarsThreshold
                           THEN ProcessDataPolars(records, cfg.val, order)
                           ELSE ProcessData(records, cfg.val, order),
                      DownsampleCap, order)]

\* process_query_result; order is the iteration order of the tag groups.
\* An AppResult is [ok, val] or [ok, err]
ProcessQueryResult(records, cfg, polars_fails, order) ==
    LET processed ==
            IF cfg.some
            THEN IF Len(records) > PolarsThreshold
                 THEN IF ~polars_fails
                      THEN ProcessDataPolars(records, cfg.val, order)
                      ELSE ProcessData(records, cfg.val, order)
                 ELSE ProcessData(records, cfg.val, order)
            ELSE records
    IN  [ok |-> TRUE, val |-> Downsample(processed, DownsampleCap, order)]

(***************************************************************************)
(* QuerySpec: QueryService::query_history and query_history_v2             *)
(*                                                                         *)
(* A request is a chain of steps, one per await on the cache or on the     *)
(* data source: a step is the awaited call together with the code that     *)
(* follows it up to the next await or the return, which touches only the   *)
(* locals of the request.  cache.get and cache.put are atomic steps.  The  *)
(* arguments that only the last step reads (the function called, offset    *)
(* and limit) are drawn when that step runs.  query_time_ms, an elapsed    *)
(* wall time, is left out of the V2 result.                                *)
(***************************************************************************)
\* the number of requests served in a run
MaxReqs == 2

\* apply_pagination that takes limit records before it skips offset records
ApplyPaginationLimitFirst(records, offset, limit) ==
    LET taken == IF limit.some /\ limit.val < Len(records)
                 THEN SubSeq(records, 1, limit.val)
                 ELSE records
    IN  IF offset.some THEN SubSeq(taken, offset.val + 1, Len(taken)) ELSE taken

\* apply_pagination
ApplyPagination(records, offset, limit) ==
    LET skipped == IF offset.some
                   THEN SubSeq(records, offset.val + 1, Len(records))
                   ELSE records
    IN  IF limit.some /\ limit.val < Len(skipped)
        THEN SubSeq(skipped, 1, limit.val)
        ELSE skipped

\* records_to_series with the pairs of a tag left in the order of the records
RecordsToSeriesUnsorted(records) ==
    LET tags == TagsAscending(TagsOf(records))
    IN  [j \in 1..Len(tags) |->
            [tag_name |-> tags[j],
             data |-> LET group == TagGroup(records, tags[j])
                      IN  [i \in 1..Len(group) |->
                              LET ts == ParseTimestampMs(group[i].date_time)
                              IN  <<IF ts.some THEN ts.val ELSE 0,
                                    group[i].tag_val>>]]]

\* records_to_series: a date_time that does not parse counts as 0
RecordsToSeries(records) ==
    LET tags == TagsAscending(TagsOf(records))
        Pairs(tag) ==
            LET group == TagGroup(records, tag)
            IN  [i \in 1..Len(group) |->
                    LET ts == ParseTimestampMs(group[i].date_time)
                    IN  <<IF ts.some THEN ts.val ELSE 0, group[i].tag_val>>]
    IN  [j \in 1..Len(tags) |->
            [tag_name |-> tags[j],
             data |-> LET pairs == Pairs(tags[j])
                          keyed == [i \in 1..Len(pairs) |->
                                       [key |-> <<pairs[i][1]>>, item |-> pairs[i]]]
                      IN  Items(SortRangeByKey(keyed, 1, Len(keyed)))]]

QueryInit ==
    /\ KeyParked
    /\ ConcNew
    /\ QueryNew
    /\ ProcParked
    /\ \E cfg \in [max_entries : {1, 2}, ttl_seconds : {1}] : CacheNew(cfg)

\* a task is handed a request: CacheKey::new
QueryStart(p, args) ==
    LET \* the number of requests handed out so far
        Started == Cardinality(UNION {{<<q, i>> : i \in 1..svc[q].n} : q \in Procs})
    IN  /\ svc[p].pc \in {"idle", "done"}
        /\ Started < MaxReqs
        /\ svc' = [svc EXCEPT ![p] = [pc |-> "keyed", n |-> svc[p].n + 1,
                   processing_config |-> args.processing_config,
                   cache_key |-> KeyOfArgs(args),
                   trace |-> <<>>]]
        /\ UNCHANGED <<config, cache, stats, now, puts>>
        /\ UNCHANGED notQueryVars

\* force_refresh = false: self.cache.get(&cache_key).await, and on a hit
\* the return of the cached records
QueryLookup(p, call) ==
    LET \* the value returned when the cache has the result
        HitResult(v2, cached_records, page) ==
            [ok |-> TRUE,
             val |-> IF v2
                     THEN [series |-> RecordsToSeries(cached_records),
                           total_raw |-> Len(cached_records),
                           total_processed |-> Len(cached_records),
                           cache_hit |-> TRUE]
                     ELSE [records |-> ApplyPagination(cached_records, page.offset,
                                                       page.limit),
                           total |-> Len(cached_records)]]
        \* the events of the code that follows a hit or a put, up to the return
        Finish ==
            (IF call.v2 THEN <<"series">> ELSE <<"paginate">>) \o <<"return">>
    IN  /\ svc[p].pc = "keyed"
        /\ \E r \in {CacheGet(cache, svc[p].cache_key, now)} :
             /\ cache' = r.cache
             /\ stats' = StatsAfterGet(stats, r.value)
             /\ svc' = [svc EXCEPT ![p] = IF r.value.some
                       THEN [svc[p] EXCEPT !.pc = "done",
                                           !.trace = <<"lookup">> \o Finish] @@
                            [force_refresh |-> FALSE, seen |-> puts[svc[p].cache_key], found |-> r.value,
                             v2 |-> call.v2, page |-> call.page,
                             result |-> HitResult(call.v2, r.value.val, call.page)]
                       ELSE [svc[p] EXCEPT !.pc = "miss", !.trace = <<"lookup">>] @@
                            [force_refresh |-> FALSE, seen |-> puts[svc[p].cache_key], found |-> r.value]]
        /\ UNCHANGED <<config, now, puts>>
        /\ UNCHANGED notQueryVars

\* a request that is about to ask the data source, after a miss
\* (pc = "miss") or at once with force_refresh = true (pc = "keyed")
BeforeFetch(p) ==
    IF svc[p].pc = "keyed"
    THEN svc[p] @@ [force_refresh |-> TRUE, seen |-> puts[svc[p].cache_key], found |-> None]
    ELSE svc[p]

\* mutant of QueryFetch: a request with force_refresh = true is counted as
\* a miss of the cache
QueryFetchCountsMiss(p, records) ==
    /\ svc[p].pc \in {"keyed", "miss"}
    /\ \E order \in Orders(TagsOf(records)) :
         \E r \in {ProcessQueryResult(records, svc[p].processing_config,
                                      FALSE, order)} :
           svc' = [svc EXCEPT ![p] = IF r.ok
                  THEN [BeforeFetch(p) EXCEPT
                           !.pc = "processed",
                           !.trace = @ \o <<"fetch", "process">>] @@
                       [records |-> records, processed_records |-> r.val]
                  ELSE [BeforeFetch(p) EXCEPT
                           !.pc = "done",
                           !.trace = @ \o <<"fetch", "process", "return">>] @@
                       [records |-> records, result |-> r]]
    /\ stats' = IF svc[p].pc = "keyed" THEN StatsAfterGet(stats, None) ELSE stats
    /\ UNCHANGED <<config, cache, now, puts>>
    /\ UNCHANGED notQueryVars

\* self.source.query_history(..).await returns Ok(records), and
\* processing::process_query_result(records, processing_config)?
QueryFetch(p, records) ==
    /\ svc[p].pc \in {"keyed", "miss"}
    /\ \E order \in Orders(TagsOf(records)) :
         \E r \in {ProcessQueryResult(records, svc[p].processing_config,
                                      FALSE, order)} :
           svc' = [svc EXCEPT ![p] = IF r.ok
                  THEN [BeforeFetch(p) EXCEPT
                           !.pc = "processed",
                           !.trace = @ \o <<"fetch", "process">>] @@
                       [records |-> records, processed_records |-> r.val]
                  ELSE [BeforeFetch(p) EXCEPT
                           !.pc = "done",
                           !.trace = @ \o <<"fetch", "process", "return">>] @@
                       [records |-> records, result |-> r]]
    /\ UNCHANGED <<config, cache, stats, now, puts>>
    /\ UNCHANGED notQueryVars

\* mutant of QueryFetchFails: a failed query drops the entry of the key
QueryFetchFailsInvalidates(p) ==
    /\ svc[p].pc \in {"keyed", "miss"}
    /\ svc' = [svc EXCEPT ![p] = [BeforeFetch(p) EXCEPT !.pc = "done",
                                     !.trace = @ \o <<"fetch", "return">>] @@
              [result |-> [ok |-> FALSE, err |-> "Database"]]]
    /\ cache' = LruPop(cache, svc[p].cache_key)
    /\ UNCHANGED <<config, stats, now, puts>>
    /\ UNCHANGED notQueryVars

\* self.source.query_history(..).await? returns an error (no connection, or
\* the query fails): the request returns it
QueryFetchFails(p) ==
    /\ svc[p].pc \in {"keyed", "miss"}
    /\ svc' = [svc EXCEPT ![p] = [BeforeFetch(p) EXCEPT !.pc = "done",
                                     !.trace = @ \o <<"fetch", "return">>] @@
              [result |-> [ok |-> FALSE, err |-> "Database"]]]
    /\ UNCHANGED <<config, cache, stats, now, puts>>
    /\ UNCHANGED notQueryVars

\* what is left of a request when it has stored its result and returns
Returned(p, call) ==
    LET \* the value returned when the result was computed
        MissResult(v2, records, processed_records, page) ==
            [ok |-> TRUE,
             val |-> IF v2
                     THEN [series |-> RecordsToSeries(processed_records),
                           total_raw |-> Len(records),
                           total_processed |-> Len(processed_records),
                           cache_hit |-> FALSE]
                     ELSE [records |-> ApplyPagination(processed_records, page.offset,
                                                       page.limit),
                           total |-> Len(records)]]
        \* the events of the code that follows a hit or a put, up to the return
        Finish ==
            (IF call.v2 THEN <<"series">> ELSE <<"paginate">>) \o <<"return">>
    IN  [svc[p] EXCEPT !.pc = "done", !.trace = @ \o <<"put">> \o Finish] @@
        [v2 |-> call.v2, page |-> call.page,
         result |-> MissResult(call.v2, svc[p].records, svc[p].processed_records,
                               call.page)]

\* mutant of QueryStore: the result is stored only when the key has no entry
QueryStoreIfAbsent(p, call) ==
    /\ svc[p].pc = "processed"
    /\ cache' = IF svc[p].cache_key \in LruKeys(cache) THEN cache
                ELSE LruPut(cache, LruCap(config.max_entries), svc[p].cache_key,
                            CacheEntryNew(svc[p].processed_records,
                                          config.ttl_seconds, now))
    /\ puts' = [puts EXCEPT ![svc[p].cache_key] =
                    Some([p |-> p, data |-> svc[p].processed_records])]
    /\ svc' = [svc EXCEPT ![p] = Returned(p, call)]
    /\ UNCHANGED <<config, stats, now>>
    /\ UNCHANGED notQueryVars

\* a request that stores the page it returns
QueryStorePage(p, call) ==
    /\ svc[p].pc = "processed"
    /\ \E stored \in {ApplyPagination(svc[p].processed_records, call.page.offset,
                                       call.page.limit)} :
         /\ cache' = LruPut(cache, LruCap(config.max_entries), svc[p].cache_key,
                            CacheEntryNew(stored, config.ttl_seconds, now))
         /\ puts' = [puts EXCEPT ![svc[p].cache_key] =
                         Some([p |-> p, data |-> stored])]
    /\ svc' = [svc EXCEPT ![p] = Returned(p, call)]
    /\ UNCHANGED <<config, stats, now>>
    /\ UNCHANGED notQueryVars

\* self.cache.put(cache_key, processed_records.clone()).await, and the
\* return of the result
QueryStore(p, call) ==
    /\ svc[p].pc = "processed"
    /\ cache' = LruPut(cache, LruCap(config.max_entries), svc[p].cache_key,
                       CacheEntryNew(svc[p].processed_records,
                                     config.ttl_seconds, now))
    /\ puts' = [puts EXCEPT ![svc[p].cache_key] =
                    Some([p |-> p, data |-> svc[p].processed_records])]
    /\ svc' = [svc EXCEPT ![p] = Returned(p, call)]
    /\ UNCHANGED <<config, stats, now>>
    /\ UNCHANGED notQueryVars

\* time passes
QueryTick ==
    /\ now < MaxTime
    /\ now' = now + 1
    /\ UNCHANGED <<config, cache, stats, svc, puts>>
    /\ UNCHANGED notQueryVars

QueryNext ==
    LET \* the rows the backing store may hold for a query
        StoreRows ==
            LET RowA == HistoryRecordNew([ms |-> 1000, form |-> "millis"], <<97>>,
                                         RatInt(1), "Good")
                RowB == HistoryRecordNew([ms |-> 0, form |-> "millis"], <<97>>,
                                         RatInt(3), "Good")
            IN  {<<RowA>>, <<RowA, RowB>>}
        \* the function called (query_history_v2 or query_history) with the page
        \* asked for, QueryParams.offset and QueryParams.limit
        Calls == [v2 : BOOLEAN, page : {[offset |-> Some(1), limit |-> Some(1)]}]
    IN  \/ \E p \in Procs : \E args \in QueryArgs : QueryStart(p, args)
        \/ \E p \in Procs : \E call \in Calls : QueryLookup(p, call)
        \/ \E p \in Procs : \E records \in StoreRows : QueryFetch(p, records)
        \/ \E p \in Procs : QueryFetchFails(p)
        \/ \E p \in Procs : \E call \in Calls : QueryStore(p, call)
        \/ QueryTick

QuerySpec == QueryInit /\ [][QueryNext]_vars

(***************************************************************************)
(* Claims about the query requests (checked under QuerySpec)               *)
(***************************************************************************)
Finished(p) == svc[p].pc = "done"

Has(trace, event) == \E i \in 1..Len(trace) : trace[i] = event

\* the number of entries the cache holds for a key
EntriesOf(k) == Cardinality({i \in 1..Len(cache) : cache[i].key = k})

\* C11: a request without force_refresh looks the key up in the cache before
\* it touches the backing store; on a hit it neither queries the store nor
\* puts, and V2 reports cache_hit = true; on a miss it fetches, processes,
\* puts, paginates and returns in this order, so that what it returns is
\* the page asked for, and V2 reports cache_hit = false.
C11_LookupBeforeStore ==
    \A p \in Procs :
        (Finished(p) /\ ~svc[p].force_refresh) =>
            /\ svc[p].trace[1] = "lookup"
            /\ svc[p].found.some =>
                  /\ ~Has(svc[p].trace, "fetch") /\ ~Has(svc[p].trace, "put")
                  /\ svc[p].result.ok
                  /\ svc[p].v2 => svc[p].result.val.cache_hit
            /\ (~svc[p].found.some /\ svc[p].result.ok) =>
                  /\ svc[p].trace =
                        <<"lookup", "fetch", "process", "put", "paginate", "return">>
                  /\ LET result == svc[p].result.val
                         \* the number of points the result carries
                         points ==
                             IF "records" \in DOMAIN result
                             THEN Len(result.records)
                             ELSE Cardinality(
                                      {<<j, i>> \in (1..Len(result.series)) \X (1..2) :
                                          i <= Len(result.series[j].data)})
                     IN  points <= svc[p].page.limit.val
                  /\ svc[p].v2 => ~svc[p].result.val.cache_hit

\* C12: a request with force_refresh = true starts with the query of the
\* backing store and looks nothing up, so no step of it changes the hit and
\* miss counters; when it succeeds the entry of its key holds the result it
\* processed, every entry of the cache holds the payload of the last put of
\* its key, and a later request that hits receives that payload.
C12_ForceRefreshReplaces ==
    /\ [](\A p \in Procs :
             /\ (Finished(p) /\ svc[p].force_refresh) =>
                    /\ svc[p].trace[1] = "fetch"
                    /\ ~Has(svc[p].trace, "lookup")
             /\ (Finished(p) /\ ~svc[p].force_refresh /\ svc[p].found.some) =>
                    /\ svc[p].seen.some
                    /\ svc[p].found.val = svc[p].seen.val.data)
    /\ [](\A i \in 1..Len(cache) :
             /\ puts[cache[i].key].some
             /\ cache[i].entry.data = puts[cache[i].key].val.data)
    /\ [][\A p \in Procs :
             (svc'[p] # svc[p] /\ svc'[p].pc \in {"processed", "done"}
                 /\ svc'[p].force_refresh) =>
                 /\ stats' = stats
                 /\ (svc[p].pc = "processed") =>
                        /\ cache'[1].key = svc[p].cache_key
                        /\ cache'[1].entry.data = svc[p].processed_records
                        /\ EntriesOf(svc[p].cache_key)' = 1]_vars

\* a forced request has replaced the live entry that another request stored,
\* with a different payload
C12_Witness ==
    \E p \in Procs :
        /\ Finished(p) /\ svc[p].force_refresh /\ svc[p].result.ok
        /\ svc[p].seen.some /\ svc[p].seen.val.p # p
        /\ svc[p].seen.val.data # svc[p].processed_records
        /\ cache[1].key = svc[p].cache_key
        /\ cache[1].entry.data = svc[p].processed_records
        /\ stats.hits + stats.misses = 1

\* C13: a request whose query of the backing store fails returns that error
\* and has put nothing; the step that fails leaves the cache as it is, so an
\* entry cached for the key stays and a get returns its payload as before.
C13_FetchErrorLeavesCache ==
    /\ [](\A p \in Procs :
             (Finished(p) /\ ~svc[p].result.ok) =>
                 /\ svc[p].result = [ok |-> FALSE, err |-> "Database"]
                 /\ ~Has(svc[p].trace, "put"))
    /\ [][\A p \in Procs :
             (svc[p].pc # "done" /\ svc'[p].pc = "done" /\ ~svc'[p].result.ok) =>
                 /\ cache' = cache
                 /\ puts' = puts
                 /\ \A k \in QueryKeys :
                       CacheGet(cache', k, now').value = CacheGet(cache, k, now).value]_vars

\* a forced request has failed while the cache holds a live entry of its key
C13_Witness ==
    \E p \in Procs :
        /\ Finished(p) /\ svc[p].force_refresh /\ ~svc[p].result.ok
        /\ svc[p].seen.some
        /\ CacheGet(cache, svc[p].cache_key, now).value = Some(svc[p].seen.val.data)

\* C14: when two requests with equal keys have both computed and stored
\* their results, the cache holds exactly one entry for the key, and its
\* payload is that of the put that ran last.
C14_OneEntryLastPutWins ==
    \A p \in Procs, q \in Procs :
        (/\ p # q
         /\ Finished(p) /\ Finished(q)
         /\ svc[p].cache_key = svc[q].cache_key
         /\ Has(svc[p].trace, "put") /\ Has(svc[q].trace, "put")) =>
            /\ EntriesOf(svc[p].cache_key) = 1
            /\ puts[svc[p].cache_key].some
            /\ \E i \in 1..Len(cache) :
                  /\ cache[i].key = svc[p].cache_key
                  /\ cache[i].entry.data = puts[svc[p].cache_key].val.data
            /\ \E last \in {p, q} :
                  /\ puts[svc[p].cache_key].val.p = last
                  /\ puts[svc[p].cache_key].val.data = svc[last].processed_records

\* two requests with equal keys both missed before either had put, both
\* queried the store, and stored results that differ
C14_Witness ==
    \E p \in Procs, q \in Procs :
        /\ p # q
        /\ Finished(p) /\ Finished(q)
        /\ svc[p].cache_key = svc[q].cache_key
        /\ ~svc[p].force_refresh /\ ~svc[q].force_refresh
        /\ ~svc[p].seen.some /\ ~svc[q].seen.some
        /\ svc[p].result.ok /\ svc[q].result.ok
        /\ Has(svc[p].trace, "fetch") /\ Has(svc[q].trace, "fetch")
        /\ svc[p].processed_records # svc[q].processed_records
        /\ puts[svc[p].cache_key].val.p = q
        /\ cache[1].entry.data = svc[q].processed_records

(***************************************************************************)
(* The SQL text of the default profile.  A text is the sequence of its     *)
(* characters; the fixed parts of the format strings that hold no bracket  *)
(* and no quote are written as one element each.                           *)
(***************************************************************************)
\* str::replace(from, to) for a character from and a string to
RECURSIVE Replace(_, _, _)
Replace(s, from, to) ==
    IF s = <<>> THEN <<>>
    ELSE (IF Head(s) = from THEN to ELSE <<Head(s)>>) \o Replace(Tail(s), from, to)

\* build_tag_filter with the tags written as they are
BuildTagFilterRaw(tags) ==
    IF tags.some /\ tags.val # <<>>
    THEN <<"AND ", "TagName", " IN (">>
         \o ExtendAll([i \in 1..Len(tags.val) |->
                          (IF i = 1 THEN <<>> ELSE <<", ">>)
                          \o <<"'">> \o tags.val[i] \o <<"'">>])
         \o <<")">>
    ELSE <<>>

\* SchemaProfile::build_tag_filter, with tag_column_name "TagName"
BuildTagFilter(tags) ==
    IF tags.some /\ tags.val # <<>>
    THEN <<"AND ", "TagName", " IN (">>
         \o ExtendAll([i \in 1..Len(tags.val) |->
                          (IF i = 1 THEN <<>> ELSE <<", ">>)
                          \o <<"'">> \o Replace(tags.val[i], "'", <<"'", "'">>)
                          \o <<"'">>])
         \o <<")">>
    ELSE <<>>

(***************************************************************************)
(* The schema profile of a query (datasource/profiles/registry.rs,         *)
(* state.rs)                                                               *)
(***************************************************************************)
\* ProfileRegistry::get: the profile is known by its name
ProfileRegistryGet(name) ==
    IF name = "default" THEN [ok |-> TRUE, val |-> "default"]
    ELSE [ok |-> FALSE, err |-> "Config"]

(***************************************************************************)
(* The errors of the bb8 pool (datasource/pool.rs)                         *)
(***************************************************************************)
(***************************************************************************)
(* ProcSpec: the processing functions applied to bounded arguments         *)
(***************************************************************************)
\* the length of the record lists that are enumerated in full
MaxPoints == 3

TagA == <<97>>

Millis(ms) == [ms |-> ms, form |-> "millis"]

\* the arguments of the calls.  process_query_result is called on the
\* enumerated lists with no config or a config of window 3, and on the list
\* above the threshold with no config or with resampling to one point per
\* second and smoothing with a window of three
ProcInit ==
    LET \* CacheWarmer::new: no warmup call yet
        WarmNew ==
            [pc |-> "idle", tasks |-> <<>>, i |-> 0, has_tx |-> FALSE,
             progress |-> None, sent |-> <<>>, fetches |-> <<>>, ret |-> None]
        \* TagGroupConfigManager::load_from a path without a file:
        \* TagGroupConfig::new
        GroupsNew ==
            [groups |-> <<>>, clock |-> 0, ret |-> [op |-> "load"]]
    IN  LET \* the enumerated lists, of records with times before and after the epoch,
            \* with and without the fraction, with a date_time that is no date, and of
            \* a second tag
            SmallLists ==
                SeqsUpTo({HistoryRecordNew(Millis(-1500), TagA, RatInt(0), "Good"),
                          HistoryRecordNew(Millis(500), TagA, RatInt(3), "Bad"),
                          HistoryRecordNew(Millis(2000), TagA, RatInt(3), "Good"),
                          HistoryRecordNew([ms |-> 1000, form |-> "seconds"], TagA,
                                           RatInt(1), "Good"),
                          HistoryRecordNew([ms |-> 0, form |-> "invalid"], TagA,
                                           RatInt(1), "Good"),
                          HistoryRecordNew(Millis(500), <<98>>, RatInt(1), "Good")},
                         MaxPoints)
            \* series of 10 to 13 points of one tag, one per second: all 0 but the last
            \* (hi) and the one before (lo), as in test_remove_outliers
            OutlierLists ==
                {[i \in 1..n |->
                     HistoryRecordNew(Millis(i * 1000), TagA,
                                      RatInt(IF i = n THEN hi ELSE IF i = n - 1 THEN lo ELSE 0),
                                      "Good")] :
                    n \in 10..13, lo \in {0, 3}, hi \in {3, 10, 11, 30}}
            \* lists with two records of one tag at the same instant, one written with
            \* and one without the fraction, in both orders
            TieLists ==
                LET frac == HistoryRecordNew(Millis(1000), TagA, RatInt(0), "Good")
                    short == HistoryRecordNew([ms |-> 1000, form |-> "seconds"], TagA,
                                              RatInt(1), "Good")
                    other == HistoryRecordNew(Millis(500), <<98>>, RatInt(1), "Good")
                IN  {<<frac, short>>, <<short, frac>>, <<frac, other, short>>,
                     <<frac, frac, short>>}
            \* a list above the threshold of the vectorized strategy: a point every
            \* half second
            BigList ==
                [i \in 1..(PolarsThreshold + 1) |->
                    HistoryRecordNew(Millis(i * 500), TagA, RatInt(i % 4), "Good")]
            \* the configs of the processing calls
            ProcConfigs ==
                [outlier_removal : [enabled : BOOLEAN, method : {<<>>}],
                 resample : [enabled : BOOLEAN, interval : {1}, method : {<<>>}],
                 smoothing : [enabled : BOOLEAN, method : {<<>>}, window : {2, 3}]]
            \* the table names, times and tags: the strings of up to two characters
            \* over a letter, the closing bracket and the single quote
            SqlStrings == SeqsUpTo({"a", "]", "'"}, 2)
        IN  /\ KeyParked
            /\ ConcNew
            /\ QueryNew
            /\ CacheNew([max_entries |-> 1, ttl_seconds |-> 1])
            /\ pool = PoolNew
            /\ warm = WarmNew
            /\ tagGroups = GroupsNew
            /\ procOut = [fn |-> "none"]
            /\ \/ \E records \in SmallLists \cup OutlierLists :
                     procIn = [fn |-> "remove_outliers", records |-> records]
               \/ \E records \in SmallLists : \E interval \in 1..2 :
                     procIn = [fn |-> "resample_data", records |-> records,
                               interval |-> interval]
               \/ \E records \in SmallLists \cup OutlierLists :
                     \E window \in 0..(MaxPoints + 1) :
                       procIn = [fn |-> "smooth_data", records |-> records,
                                 window |-> window]
               \/ \E records \in SmallLists \cup TieLists :
                     procIn = [fn |-> "records_to_series", records |-> records]
               \/ \E n \in 0..(MaxPoints + 1) :
                    \E offset, limit \in {None} \cup {Some(k) : k \in 0..(MaxPoints + 2)} :
                       procIn = [fn |-> "apply_pagination",
                                 records |-> [i \in 1..n |->
                                                 HistoryRecordNew(Millis(i * 1000), TagA,
                                                                  RatInt(i), "Good")],
                                 offset |-> offset, limit |-> limit]
               \/ \E table \in SqlStrings :
                    \E start_time, end_time \in {<<"a">>, <<"'">>, <<"a", "'">>, <<"'", "'">>} :
                     \E tags \in {None, Some(<<>>)} \cup {Some(<<t>>) : t \in SqlStrings}
                                 \cup {Some(<<t, u>>) : t, u \in {<<"'">>, <<"a", "'">>, <<"]">>}} :
                       procIn = [fn |-> "history_query_sql", table |-> table,
                                 start_time |-> start_time, end_time |-> end_time,
                                 tags |-> tags]
               \/ \E profile \in {"default", "unknown", ""} : \E pool_initialized \in BOOLEAN :
                     procIn = [fn |-> "query_history", profile |-> profile,
                               pool_initialized |-> pool_initialized]
               \/ \E backend \in {"up", "unreachable", "login_failed"} :
                    \E exhausted \in BOOLEAN :
                     procIn = [fn |-> "pool_get", backend |-> backend,
                               exhausted |-> exhausted]
               \/ \E records \in SmallLists : \E max_points_per_tag \in 1..MaxPoints :
                     procIn = [fn |-> "downsample", records |-> records,
                               max_points_per_tag |-> max_points_per_tag]
               \/ \E records \in SmallLists \cup OutlierLists \cup TieLists :
                     \E cfg \in ProcConfigs :
                       procIn = [fn |-> "process_data", records |-> records, config |-> cfg]
               \/ \E records \in SmallLists :
                     \E cfg \in {None} \cup {Some(c) : c \in {x \in ProcConfigs :
                                                                x.smoothing.window = 3}} :
                       \E polars_fails \in BOOLEAN :
                         procIn = [fn |-> "process_query_result", records |-> records,
                                   config |-> cfg, polars_fails |-> polars_fails]
               \/ \E cfg \in {None} \cup {Some(c) : c \in {x \in ProcConfigs :
                                                          /\ ~x.outlier_removal.enabled
                                                          /\ x.resample.enabled
                                                          /\ x.smoothing.enabled
                                                          /\ x.smoothing.window = 3}} :
                    \E polars_fails \in BOOLEAN :
                     procIn = [fn |-> "process_query_result", records |-> BigList,
                               config |-> cfg, polars_fails |-> polars_fails]

\* every call below is made once, on the arguments of procIn
ApplyRemoveOutliers ==
    /\ procIn.fn = "remove_outliers" /\ procOut.fn = "none"
    /\ procOut' = [fn |-> "remove_outliers", out |-> RemoveOutliers(procIn.records)]
    /\ UNCHANGED procIn
    /\ UNCHANGED notProcVars

ApplyResampleData ==
    /\ procIn.fn = "resample_data" /\ procOut.fn = "none"
    /\ procOut' = [fn |-> "resample_data",
                   out |-> ResampleData(procIn.records, procIn.interval)]
    /\ UNCHANGED procIn
    /\ UNCHANGED notProcVars

ApplySmoothData ==
    /\ procIn.fn = "smooth_data" /\ procOut.fn = "none"
    /\ procOut' = [fn |-> "smooth_data",
                   out |-> SmoothData(procIn.records, procIn.window)]
    /\ UNCHANGED procIn
    /\ UNCHANGED notProcVars

ApplyRecordsToSeries ==
    /\ procIn.fn = "records_to_series" /\ procOut.fn = "none"
    /\ procOut' = [fn |-> "records_to_series",
                   out |-> RecordsToSeries(procIn.records)]
    /\ UNCHANGED procIn
    /\ UNCHANGED notProcVars

ApplyPaginate ==
    /\ procIn.fn = "apply_pagination" /\ procOut.fn = "none"
    /\ procOut' = [fn |-> "apply_pagination",
                   out |-> ApplyPagination(procIn.records, procIn.offset,
                                           procIn.limit)]
    /\ UNCHANGED procIn
    /\ UNCHANGED notProcVars

\* build_tag_filter and history_query_sql with its result
ApplyHistoryQuerySql ==
    LET \* DefaultProfile::history_query_sql
        HistoryQuerySql(table, start_time, end_time, tag_filter) ==
            <<"SELECT DateTime, TagName, TagVal, TagQuality FROM ", "[">>
            \o Replace(table, "]", <<"]", "]">>)
            \o <<"]", " WITH (NOLOCK) WHERE DateTime BETWEEN ", "'">>
            \o Replace(start_time, "'", <<"'", "'">>)
            \o <<"'", " AND ", "'">>
            \o Replace(end_time, "'", <<"'", "'">>)
            \o <<"'", " ">> \o tag_filter \o <<" ORDER BY DateTime">>
    IN  /\ procIn.fn = "history_query_sql" /\ procOut.fn = "none"
        /\ procOut' = [fn |-> "history_query_sql",
                       tag_filter |-> BuildTagFilter(procIn.tags),
                       out |-> HistoryQuerySql(procIn.table, procIn.start_time,
                                               procIn.end_time,
                                               BuildTagFilter(procIn.tags))]
        /\ UNCHANGED procIn
        /\ UNCHANGED notProcVars

\* the query_history command with schema.profile = procIn.profile in the
\* configuration: the query is run on the handle of query_service, with its
\* profile, and without a handle the command fails
ApplyQueryHistory ==
    LET \* AppState::query_service: None while init_pool has not set the service,
        \* else a handle with the profile of get_schema_profile, which is the
        \* default profile when ProfileRegistry::get fails
        QueryService(pool_initialized, profile_name) ==
            IF ~pool_initialized THEN None
            ELSE LET got == ProfileRegistryGet(profile_name)
                 IN  Some([profile |-> IF got.ok THEN got.val ELSE "default"])
    IN  /\ procIn.fn = "query_history" /\ procOut.fn = "none"
        /\ procOut' = [fn |-> "query_history",
                       get |-> ProfileRegistryGet(procIn.profile),
                       out |-> LET service == QueryService(procIn.pool_initialized,
                                                           procIn.profile)
                               IN  IF service.some
                                   THEN [ok |-> TRUE,
                                         val |-> [executed_with |-> service.val.profile]]
                                   ELSE [ok |-> FALSE, err |-> "DatabaseNotConnected"]]
        /\ UNCHANGED procIn
        /\ UNCHANGED notProcVars

\* ConnectionPool::get on a pool without an idle connection.  Pool::get of
\* bb8 gives a connection when one is released or made in time; with
\* max_size connections checked out for the whole connection_timeout
\* (exhausted) it is RunError::TimedOut, and when the manager cannot connect
\* it is RunError::User with the error of the manager or RunError::TimedOut
ApplyPoolGet ==
    LET \* ConnectionManager::create_connection: every failure to reach the server
        \* or to log in is an AppError::Connection
        CreateConnection(backend) ==
            IF backend = "up" THEN [ok |-> TRUE, val |-> "client"]
            ELSE [ok |-> FALSE, err |-> "Connection"]
        \* ConnectionPool::get: every error of Pool::get becomes an AppError::Pool
        PoolGet(run_result) ==
            IF run_result.ok THEN run_result ELSE [ok |-> FALSE, err |-> "Pool"]
    IN  /\ procIn.fn = "pool_get" /\ procOut.fn = "none"
        /\ LET connect == CreateConnection(procIn.backend)
           IN  \E run_result \in
                     IF procIn.exhausted THEN {[ok |-> FALSE, err |-> "TimedOut"]}
                     ELSE IF connect.ok THEN {connect}
                     ELSE {[ok |-> FALSE, err |-> "TimedOut"],
                           [ok |-> FALSE, err |-> "User", cause |-> connect.err]} :
                 procOut' = [fn |-> "pool_get", connect |-> connect,
                             run_result |-> run_result, out |-> PoolGet(run_result)]
        /\ UNCHANGED procIn
        /\ UNCHANGED notProcVars

ApplyDownsample ==
    /\ procIn.fn = "downsample" /\ procOut.fn = "none"
    /\ \E order \in Orders(TagsOf(procIn.records)) :
         procOut' = [fn |-> "downsample",
                     out |-> Downsample(procIn.records, procIn.max_points_per_tag,
                                        order)]
    /\ UNCHANGED procIn
    /\ UNCHANGED notProcVars

\* process_data and process_data_polars on the same arguments
ApplyProcessData ==
    /\ procIn.fn = "process_data" /\ procOut.fn = "none"
    /\ \E order \in Orders(TagsOf(procIn.records)) :
         procOut' = [fn |-> "process_data",
                     out |-> ProcessData(procIn.records, procIn.config, order),
                     polars |-> ProcessDataPolars(procIn.records, procIn.config,
                                                  order)]
    /\ UNCHANGED procIn
    /\ UNCHANGED notProcVars

ApplyProcessQueryResult ==
    LET \* the strategies process_query_result runs, in order; polars_fails tells
        \* whether process_data_polars returns an error
        StrategiesRun(records, cfg, polars_fails) ==
            IF ~cfg.some THEN <<>>
            ELSE IF Len(records) > PolarsThreshold
                 THEN IF polars_fails THEN <<"polars", "native">> ELSE <<"polars">>
                 ELSE <<"native">>
    IN  /\ procIn.fn = "process_query_result" /\ procOut.fn = "none"
        /\ \E order \in Orders(TagsOf(procIn.records)) :
             procOut' = [fn |-> "process_query_result",
                         out |-> ProcessQueryResult(procIn.records, procIn.config,
                                                    procIn.polars_fails, order),
                         ran |-> StrategiesRun(procIn.records, procIn.config,
                                               procIn.polars_fails),
                         order |-> order]
        /\ UNCHANGED procIn
        /\ UNCHANGED notProcVars

ProcNext ==
    \/ ApplyRemoveOutliers
    \/ ApplyResampleData
    \/ ApplySmoothData
    \/ ApplyRecordsToSeries
    \/ ApplyPaginate
    \/ ApplyHistoryQuerySql
    \/ ApplyQueryHistory
    \/ ApplyPoolGet
    \/ ApplyDownsample
    \/ ApplyProcessData
    \/ ApplyProcessQueryResult

ProcSpec == ProcInit /\ [][ProcNext]_vars

(***************************************************************************)
(* Claims about the processing functions (ProcSpec)                        *)
(***************************************************************************)
\* C15: process_query_result never fails because of the vectorized strategy
\* alone: it returns Ok on every input; with a config and more than 1000
\* records the vectorized strategy runs first and, when it fails, the
\* row-wise strategy runs on the original records and its downsampled
\* result is returned; with at most 1000 records only the row-wise strategy
\* runs, and without a config none
C15_FallbackToNative ==
    procOut.fn = "process_query_result" =>
        LET records == procIn.records
            cfg == procIn.config
            above == Len(records) > PolarsThreshold
        IN  /\ procOut.out.ok
            /\ ~cfg.some => procOut.ran = <<>>
            /\ cfg.some /\ ~above => procOut.ran = <<"native">>
            /\ cfg.some /\ above =>
                 /\ procOut.ran[1] = "polars"
                 /\ procOut.ran = IF procIn.polars_fails
                                  THEN <<"polars", "native">> ELSE <<"polars">>
            /\ cfg.some /\ (~above \/ procIn.polars_fails) =>
                 procOut.out.val =
                     Downsample(ProcessData(records, cfg.val, procOut.order),
                                DownsampleCap, procOut.order)

\* the vectorized strategy failed on more than 1000 records and the call
\* returned the points of the row-wise strategy
C15_Witness ==
    /\ procOut.fn = "process_query_result"
    /\ procIn.config.some
    /\ Len(procIn.records) > PolarsThreshold
    /\ procIn.polars_fails
    /\ procOut.ran = <<"polars", "native">>
    /\ procOut.out.ok
    /\ procOut.out.val # <<>>

\* mean - 3 * sd <= v <= mean + 3 * sd for the population mean and the
\* population standard deviation of the values of records, which are whole
\* numbers: with n values of sum S and sum of squares Q,
\* (n * v - S)^2 <= 9 * (n * Q - S^2)
InThreeSigma(v, records) ==
    LET n == Len(records)
        S == SumRange(Values(records), 1, n).n
        Q == SumRange([i \in 1..n |-> RatInt(records[i].tag_val.n * records[i].tag_val.n)],
                      1, n).n
        dist == n * v - S
    IN  dist * dist <= 9 * (n * Q - S * S)

\* C19: remove_outliers returns fewer than 3 points unchanged; for 3 or
\* more points it returns, in input order and unmodified, exactly the points
\* whose value lies within three population standard deviations of the
\* population mean of the whole input, the rule being applied once
C19_ThreeSigmaOnce ==
    procOut.fn = "remove_outliers" =>
        LET records == procIn.records
        IN  procOut.out =
                IF Len(records) < 3 THEN records
                ELSE SelectSeq(records,
                               LAMBDA r : InThreeSigma(r.tag_val.n, records))

\* remove_outliers removed a point and kept a point that is more than three
\* standard deviations from the mean of the survivors
C19_Witness ==
    /\ procOut.fn = "remove_outliers"
    /\ Len(procIn.records) >= 3
    /\ Len(procOut.out) < Len(procIn.records)
    /\ \E i \in 1..Len(procOut.out) :
         ~InThreeSigma(procOut.out[i].tag_val.n, procOut.out)

\* two lists hold the same elements, each as often
SameElements(a, b) ==
    LET Count(list, x) == Cardinality({i \in 1..Len(list) : list[i] = x})
    IN  /\ Len(a) = Len(b)
        /\ \A i \in 1..Len(a) : Count(a, a[i]) = Count(b, a[i])

\* C18: for every cap >= 1 downsample returns at most cap points for each
\* series, and a series of at most cap points is returned complete and
\* unmodified
C18_AtMostCapPerSeries ==
    procOut.fn = "downsample" =>
        \A tag \in TagsOf(procIn.records) :
            LET series == TagGroup(procIn.records, tag)
                kept == TagGroup(procOut.out, tag)
            IN  /\ Len(kept) <= procIn.max_points_per_tag
                /\ Len(series) <= procIn.max_points_per_tag =>
                     SameElements(kept, series)

\* C20: resample_data puts a point of timestamp t in the window of key
\* floor(t / interval_ms) * interval_ms, also for t before the epoch, and
\* emits one point per non-empty window: the key as timestamp, the mean of
\* the members as value, the quality and series of the first member; the
\* output ascends by timestamp and is not longer than the input
C20_FloorAlignedWindows ==
    procOut.fn = "resample_data" =>
        LET interval_ms == procIn.interval * 1000
            parsed == SelectSeq(procIn.records,
                          LAMBDA r : ParseTimestampMs(r.date_time).some)
            \* floor(t / interval_ms) * interval_ms: \div rounds down
            KeyOf(r) ==
                (ParseTimestampMs(r.date_time).val \div interval_ms) * interval_ms
            out == procOut.out
        IN  /\ Len(out) <= Len(procIn.records)
            /\ \A i \in 1..Len(out) : ParseTimestampMs(out[i].date_time).some
            /\ \A i \in 1..(Len(out) - 1) :
                 ParseTimestampMs(out[i].date_time).val
                     < ParseTimestampMs(out[i + 1].date_time).val
            /\ {ParseTimestampMs(out[i].date_time).val : i \in 1..Len(out)}
                   = {KeyOf(parsed[i]) : i \in 1..Len(parsed)}
            /\ \A i \in 1..Len(out) :
                 LET key == ParseTimestampMs(out[i].date_time).val
                     members == SelectSeq(parsed, LAMBDA r : KeyOf(r) = key)
                 IN  members # <<>> =>
                       /\ out[i].tag_val = Mean(Values(members))
                       /\ out[i].tag_quality = members[1].tag_quality
                       /\ out[i].tag_name = members[1].tag_name

\* two record lists hold the same points per series, a point being the
\* timestamp and the value of a record
SamePoints(a, b) ==
    LET SeriesPoints(records, tag) ==
            LET series == TagGroup(records, tag)
            IN  [i \in 1..Len(series) |->
                    [timestamp |-> ParseTimestampMs(series[i].date_time),
                     value |-> series[i].tag_val]]
    IN  \A tag \in TagsOf(a) \cup TagsOf(b) :
            SameElements(SeriesPoints(a, tag), SeriesPoints(b, tag))

\* C16: for every record list and every config, process_data and
\* process_data_polars return the same points per series, with the same
\* timestamps and values
C16_StrategiesEquivalent ==
    procOut.fn = "process_data" => SamePoints(procOut.out, procOut.polars)

\* C17: whichever strategy process_query_result selects, its result is the
\* result of the enabled stages run per series in the order outlier
\* rejection, resampling, smoothing, followed by downsampling with the cap
\* of 5000; without a config it is the downsampled input
C17_StagesInFixedOrder ==
    procOut.fn = "process_query_result" =>
        LET records == procIn.records
            staged == IF procIn.config.some
                      THEN ProcessData(records, procIn.config.val, procOut.order)
                      ELSE records
        IN  /\ procOut.out.ok
            /\ SamePoints(procOut.out.val,
                          Downsample(staged, DownsampleCap, procOut.order))

\* C21: smooth_data with a window w >= 2 on n >= w points returns n points;
\* point i keeps the date_time, tag and quality of input point i and its
\* value is the mean of the input values at the positions from i - h to
\* i + h that exist, h = w div 2; with w < 2 or n < w the input is returned
C21_CenteredRollingMean ==
    procOut.fn = "smooth_data" =>
        LET records == procIn.records
            n == Len(records)
            w == procIn.window
            h == w \div 2
            out == procOut.out
        IN  IF w < 2 \/ n < w THEN out = records
            ELSE /\ Len(out) = n
                 /\ \A i \in 1..n :
                      LET lo == IF i - h < 1 THEN 1 ELSE i - h
                          hi == IF i + h > n THEN n ELSE i + h
                      IN  /\ out[i].date_time = records[i].date_time
                          /\ out[i].tag_name = records[i].tag_name
                          /\ out[i].tag_quality = records[i].tag_quality
                          /\ out[i].tag_val = Mean(Values(SubSeq(records, lo, hi)))

\* a window of three over three points changes the value of an edge point
\* and of the middle point
C21_Witness ==
    /\ procOut.fn = "smooth_data"
    /\ procIn.window = 3
    /\ Len(procIn.records) = 3
    /\ procOut.out[1].tag_val # procIn.records[1].tag_val
    /\ procOut.out[2].tag_val # procIn.records[2].tag_val
    /\ procOut.out[3].tag_val = RatDivInt(RatAdd(procIn.records[2].tag_val,
                                                 procIn.records[3].tag_val), 2)

C23_OneSortedSeriesPerTag ==
    procOut.fn = "records_to_series" =>
        LET records == procIn.records
            out == procOut.out
            Pair(r) == LET ts == ParseTimestampMs(r.date_time)
                       IN  <<IF ts.some THEN ts.val ELSE 0, r.tag_val>>
            PairCount(list) == IF list = <<>> THEN 0
                               ELSE Len(ExtendAll([j \in 1..Len(list) |->
                                                      list[j].data]))
        IN  /\ {out[j].tag_name : j \in 1..Len(out)} = TagsOf(records)
            /\ \A i, j \in 1..Len(out) :
                 i < j => StrLess(out[i].tag_name, out[j].tag_name)
            /\ \A j \in 1..Len(out) :
                 LET group == TagGroup(records, out[j].tag_name)
                     data == out[j].data
                 IN  /\ SameElements(data, [i \in 1..Len(group) |-> Pair(group[i])])
                     /\ \A a, b \in 1..Len(data) : a < b => data[a][1] <= data[b][1]
            /\ PairCount(out) = Len(records)

\* two tags given out of order, the records of one of them out of order
C23_Witness ==
    /\ procOut.fn = "records_to_series"
    /\ Len(procIn.records) = 3
    /\ procIn.records[1].tag_name = <<98>>
    /\ procIn.records[2].date_time = Millis(2000)
    /\ procIn.records[3].date_time = Millis(-1500)
    /\ Len(procOut.out) = 2
    /\ procOut.out[1].tag_name = TagA
    /\ procOut.out[1].data = <<<<-1500, RatInt(0)>>, <<2000, RatInt(3)>>>>

\* C30: apply_pagination returns the records from index offset on (0 when
\* absent), at most limit of them (all when absent), in their order: the
\* result has min(limit, max(0, n - offset)) records, none when the offset
\* is at or beyond the length
C30_ContiguousPage ==
    procOut.fn = "apply_pagination" =>
        LET records == procIn.records
            n == Len(records)
            offset == IF procIn.offset.some THEN procIn.offset.val ELSE 0
            rest == IF n - offset > 0 THEN n - offset ELSE 0
            len == IF procIn.limit.some /\ procIn.limit.val < rest
                   THEN procIn.limit.val ELSE rest
            out == procOut.out
        IN  /\ Len(out) = len
            /\ \A i \in 1..len : out[i] = records[offset + i]

\* a page from the middle of a list of four records
C30_Witness ==
    /\ procOut.fn = "apply_pagination"
    /\ Len(procIn.records) = 4
    /\ procIn.offset = Some(1) /\ procIn.limit = Some(2)
    /\ procOut.out = SubSeq(procIn.records, 2, 3)

\* C28: in the text of history_query_sql with the filter of build_tag_filter
\* every ] of the table name is doubled inside the bracketed identifier and
\* every quote of the times and of the tags is doubled inside its literal:
\* read by the quoting rules of the dialect, the text holds the one
\* identifier table and the literals start_time, end_time and the tags in
\* their order.  The filter is empty for no tags and for an empty tag list
C28_SqlEscaped ==
    procOut.fn = "history_query_sql" =>
        LET text == procOut.out
            n == Len(text)
            \* the identifiers and the literals of the text from position i,
            \* cur being the part read of the one that is open
            RECURSIVE Lex(_, _, _, _)
            Lex(i, mode, cur, acc) ==
                IF i > n THEN [acc EXCEPT !.open = (mode # "sql")]
                ELSE CASE mode = "sql" ->
                            IF text[i] = "[" THEN Lex(i + 1, "ident", <<>>, acc)
                            ELSE IF text[i] = "'" THEN Lex(i + 1, "literal", <<>>, acc)
                            ELSE Lex(i + 1, "sql", <<>>, acc)
                       [] mode = "ident" ->
                            IF text[i] # "]" THEN Lex(i + 1, mode, Append(cur, text[i]), acc)
                            ELSE IF i < n /\ text[i + 1] = "]"
                                 THEN Lex(i + 2, mode, Append(cur, "]"), acc)
                                 ELSE Lex(i + 1, "sql", <<>>,
                                          [acc EXCEPT !.idents = Append(@, cur)])
                       [] OTHER ->
                            IF text[i] # "'" THEN Lex(i + 1, mode, Append(cur, text[i]), acc)
                            ELSE IF i < n /\ text[i + 1] = "'"
                                 THEN Lex(i + 2, mode, Append(cur, "'"), acc)
                                 ELSE Lex(i + 1, "sql", <<>>,
                                          [acc EXCEPT !.literals = Append(@, cur)])
            tags == IF procIn.tags.some THEN procIn.tags.val ELSE <<>>
        IN  /\ Lex(1, "sql", <<>>, [idents |-> <<>>, literals |-> <<>>, open |-> FALSE])
                 = [idents |-> <<procIn.table>>,
                    literals |-> <<procIn.start_time, procIn.end_time>> \o tags,
                    open |-> FALSE]
            /\ tags = <<>> <=> procOut.tag_filter = <<>>

\* a table name with a bracket and two tags with quotes
C28_Witness ==
    /\ procOut.fn = "history_query_sql"
    /\ procIn.table = <<"a", "]">>
    /\ procIn.tags = Some(<<<<"a", "'">>, <<"'">>>>)
    /\ SubSeq(procOut.out, 2, 6) = <<"[", "a", "]", "]", "]">>
    /\ procOut.tag_filter = <<"AND ", "TagName", " IN (", "'", "a", "'", "'", "'",
                              ", ", "'", "'", "'", "'", ")">>

\* C27: ProfileRegistry::get returns a configuration error for every name
\* other than "default", and a query asked for while the configured profile
\* name is unknown is not run: it fails, with that error when the query
\* service exists
C27_UnknownProfileFailsQuery ==
    procOut.fn = "query_history" /\ procIn.profile # "default" =>
        /\ procOut.get = [ok |-> FALSE, err |-> "Config"]
        /\ ~procOut.out.ok
        /\ procIn.pool_initialized => procOut.out.err = "Config"

\* C26: a failed acquisition tells its cause: an exhausted pool or a timeout
\* of the acquisition is a pool error, a backend that cannot be reached or
\* refuses the login is a connection error and never a pool error
C26_PoolErrorsDistinct ==
    procOut.fn = "pool_get" =>
        /\ procIn.exhausted => procOut.out = [ok |-> FALSE, err |-> "Pool"]
        /\ ~procIn.exhausted /\ procIn.backend # "up"
              => procOut.out = [ok |-> FALSE, err |-> "Connection"]

\* C29: the sweep of AppState::new runs for the whole life of the process
\* and needs no other subsystem: an entry of the cache whose TTL has elapsed
\* is eventually removed, whether or not a get is issued for its key, while
\* the pool is not initialized; the sweep task holds the cache lock only
\* during a call of evict_expired
C29_SweepRemovesExpired ==
    /\ \A k \in ConcKeys :
          (\E i \in 1..Len(cache) :
               cache[i].key = k /\ IsExpired(cache[i].entry, now))
          ~> ~(\E i \in 1..Len(cache) :
                  cache[i].key = k /\ IsExpired(cache[i].entry, now))
    /\ [](pc[2] \in {"idle", "evict_lock", "done"}
            => cacheLock.writer # 2 /\ 2 \notin cacheLock.readers)
    /\ [](pool = PoolNew)

\* the sweep has removed an entry that no get has asked for
C29_Witness ==
    /\ pc[2] = "done"
    /\ local[2].op = "evict"
    /\ local[2].count = 1
    /\ cache = <<>>
    /\ stats = [hits |-> 0, misses |-> 0]
    /\ local[1].op = "none"

(***************************************************************************)
(* PoolSpec: the single-connection ConnectionPool (connection_pool.rs)     *)
(* called by concurrent tasks.  pool.client is the Option<Client> under    *)
(* the mutex and pool.mutex the task that holds the mutex.  Connections    *)
(* are numbered in the order they are made; pool.broken holds those on     *)
(* which a query fails.  History: task.checked is the connection of the    *)
(* health check of the current call and its result, task.fresh the         *)
(* connection made in the current call, pool.failed the connections that   *)
(* failed a health check, pool.with the configuration each connection was  *)
(* made with, task.arg the configuration of the caller's update_config and *)
(* pool.updated the latest configuration whose update_config has returned. *)
(***************************************************************************)
\* the number of connections made
MaxConns == 2

\* the number of configurations stored by update_config
MaxCfgs == 2

\* get_client: self.client.lock().await
GetClientLock(p) ==
    /\ pool.task[p].pc = "idle"
    /\ pool.mutex = 0
    /\ pool' = [pool EXCEPT !.mutex = p,
                            !.task[p] = [pc |-> "check", conn |-> 0,
                                         checked |-> None, fresh |-> 0,
                                         ret |-> "none", arg |-> @.arg]]
    /\ UNCHANGED notPoolVars

\* get_client that keeps the connection whatever the health check says
HealthCheckIgnored(p) ==
    /\ pool.task[p].pc = "check"
    /\ pool' = IF pool.client.some
               THEN [pool EXCEPT !.task[p].pc = "holding",
                                 !.task[p].conn = pool.client.val,
                                 !.task[p].checked =
                                     Some([conn |-> pool.client.val,
                                           passed |-> pool.client.val \notin pool.broken]),
                                 !.failed = IF pool.client.val \in pool.broken
                                            THEN @ \cup {pool.client.val} ELSE @]
               ELSE [pool EXCEPT !.task[p].pc = "create"]
    /\ UNCHANGED notPoolVars

\* get_client: health_check_inner on the connection of the pool, if any;
\* SELECT 1 fails on a broken connection, which is dropped; a connection
\* that passed is returned in a PooledConnection
HealthCheck(p) ==
    /\ pool.task[p].pc = "check"
    /\ pool' = IF pool.client.some
               THEN IF pool.client.val \in pool.broken
                    THEN [pool EXCEPT !.client = None,
                                      !.failed = @ \cup {pool.client.val},
                                      !.task[p].checked =
                                          Some([conn |-> pool.client.val,
                                                passed |-> FALSE]),
                                      !.task[p].pc = "create"]
                    ELSE [pool EXCEPT !.task[p].checked =
                                          Some([conn |-> pool.client.val,
                                                passed |-> TRUE]),
                                      !.task[p].conn = pool.client.val,
                                      !.task[p].pc = "holding"]
               ELSE [pool EXCEPT !.task[p].pc = "create"]
    /\ UNCHANGED notPoolVars

\* get_client: under self.config.read(), create_connection_inner with the
\* stored configuration; a new connection is stored and returned, an error
\* is returned by ? and the guard is dropped
CreateConnectionInner(p) ==
    /\ pool.task[p].pc = "create"
    /\ \/ /\ pool.made < MaxConns
          /\ pool' = [pool EXCEPT !.made = @ + 1,
                                  !.with = Append(@, pool.config),
                                  !.client = Some(pool.made + 1),
                                  !.task[p].fresh = pool.made + 1,
                                  !.task[p].conn = pool.made + 1,
                                  !.task[p].pc = "holding"]
       \/ pool' = [pool EXCEPT !.mutex = 0,
                               !.task[p].pc = "idle",
                               !.task[p].ret = "Connection"]
    /\ UNCHANGED notPoolVars

\* the PooledConnection goes out of scope: the guard is dropped
DropPooledConnection(p) ==
    /\ pool.task[p].pc = "holding"
    /\ pool' = [pool EXCEPT !.mutex = 0,
                            !.task[p].pc = "idle",
                            !.task[p].ret = "Ok"]
    /\ UNCHANGED notPoolVars

\* disconnect: under the mutex the connection is dropped
Disconnect(p) ==
    /\ pool.task[p].pc = "idle"
    /\ pool.mutex = 0
    /\ pool.client.some
    /\ pool' = [pool EXCEPT !.client = None]
    /\ UNCHANGED notPoolVars

\* update_config: under self.config.write() the configuration is replaced;
\* configurations are numbered in the order in which they are stored
UpdateConfigWrite(p) ==
    /\ pool.task[p].pc = "idle"
    /\ pool.config < MaxCfgs
    /\ pool' = [pool EXCEPT !.config = @ + 1,
                            !.task[p].arg = pool.config + 1,
                            !.task[p].pc = "clear"]
    /\ UNCHANGED notPoolVars

\* update_config that leaves the connection in the pool
UpdateConfigClearKept(p) ==
    /\ pool.task[p].pc = "clear"
    /\ pool.mutex = 0
    /\ pool' = [pool EXCEPT !.updated = IF pool.task[p].arg > @
                                        THEN pool.task[p].arg ELSE @,
                            !.task[p].pc = "idle",
                            !.task[p].ret = "Updated"]
    /\ UNCHANGED notPoolVars

\* update_config: under self.client.lock() the connection is dropped, then
\* update_config returns
UpdateConfigClear(p) ==
    /\ pool.task[p].pc = "clear"
    /\ pool.mutex = 0
    /\ pool' = [pool EXCEPT !.client = None,
                            !.updated = IF pool.task[p].arg > @
                                        THEN pool.task[p].arg ELSE @,
                            !.task[p].pc = "idle",
                            !.task[p].ret = "Updated"]
    /\ UNCHANGED notPoolVars

\* the server or the network ends the connection of the pool
BreakConnection ==
    /\ pool.client.some
    /\ pool.client.val \notin pool.broken
    /\ pool' = [pool EXCEPT !.broken = @ \cup {pool.client.val}]
    /\ UNCHANGED notPoolVars

PoolNext ==
    \/ \E p \in Procs : GetClientLock(p)
    \/ \E p \in Procs : HealthCheck(p)
    \/ \E p \in Procs : CreateConnectionInner(p)
    \/ \E p \in Procs : DropPooledConnection(p)
    \/ \E p \in Procs : Disconnect(p)
    \/ \E p \in Procs : UpdateConfigWrite(p)
    \/ \E p \in Procs : UpdateConfigClear(p)
    \/ BreakConnection

PoolSpec == ConcInit /\ [][PoolNext]_vars

(***************************************************************************)
(* Claims about the single-connection pool (PoolSpec)                      *)
(***************************************************************************)
\* C24: the connection that get_client hands to a caller passed the health
\* check of that call or was made in that call; a connection that failed a
\* health check is not in the pool and is handed to nobody; when making the
\* replacement fails, get_client returns the connection error and leaves
\* the pool without a connection
C24_ValidatedOrFresh ==
    /\ [](\A p \in Procs :
            pool.task[p].pc = "holding" =>
                /\ pool.mutex = p
                /\ pool.client = Some(pool.task[p].conn)
                /\ \/ pool.task[p].checked = Some([conn |-> pool.task[p].conn,
                                                    passed |-> TRUE])
                   \/ pool.task[p].fresh = pool.task[p].conn
                /\ pool.task[p].conn \notin pool.failed)
    /\ [](pool.client.some => pool.client.val \notin pool.failed)
    /\ [][\A p \in Procs :
            pool.task[p].pc = "create" /\ pool'.task[p].pc = "idle" =>
                /\ pool'.task[p].ret = "Connection"
                /\ pool'.client = None
                /\ pool'.mutex = 0]_vars

\* the second connection is handed out in the call whose health check
\* failed on the first
C24_Witness ==
    \E p \in Procs :
        /\ pool.task[p].pc = "holding"
        /\ pool.task[p].checked = Some([conn |-> 1, passed |-> FALSE])
        /\ pool.task[p].fresh = 2
        /\ pool.client = Some(2)

\* C31: when update_config(c) returns the pool holds no connection and the
\* stored configuration is c, or the one of an update_config that stored
\* its configuration after c; every connection that get_client hands out
\* was made with the configuration of the latest update_config that has
\* returned or with one stored after it
C31_NoStaleConnectionAfterUpdate ==
    /\ [][\A p \in Procs :
            pool.task[p].pc = "clear" /\ pool'.task[p].pc = "idle" =>
                /\ pool'.client = None
                /\ \/ pool'.config = pool.task[p].arg
                   \/ \E q \in Procs \ {p} : /\ pool.task[q].arg > pool.task[p].arg
                                              /\ pool'.config = pool.task[q].arg]_vars
    /\ [](\A p \in Procs :
            pool.task[p].pc = "holding" =>
                pool.with[pool.task[p].conn] >= pool.updated)
    /\ [](pool.client.some => pool.with[pool.client.val] >= pool.updated)

\* after the update_config of configuration 1 returned, a caller holds the
\* second connection, made with configuration 1, while the first was made
\* with the configuration given to new
C31_Witness ==
    \E p \in Procs :
        /\ pool.task[p].pc = "holding"
        /\ pool.task[p].conn = 2
        /\ pool.with = <<0, 1>>
        /\ pool.updated = 1

(***************************************************************************)
(* WarmSpec: CacheWarmer::warmup. The call of cache.get and the call of    *)
(* the fetcher with the cache.put that follows it are the steps of one     *)
(* task; time may pass between them. History: warm.fetches counts the      *)
(* calls of the fetcher per task.                                          *)
(***************************************************************************)
\* the number of tasks of a warmup call
MaxTasks == 3

\* WarmupTask::to_cache_key
ToCacheKey(task) ==
    CacheKeyNew(task.table, task.start_time, task.end_time, task.tags,
                task.processing_config)

\* WarmupProgress::update
WarmupProgressUpdate(progress, task, success) ==
    LET counted ==
            [progress EXCEPT !.completed = @ + 1,
                             !.current_task = Some(task),
                             !.success_count = IF success THEN @ + 1 ELSE @,
                             !.failure_count = IF success THEN @ ELSE @ + 1]
    IN  IF counted.completed >= counted.total
        THEN [counted EXCEPT !.is_done = TRUE, !.current_task = None]
        ELSE counted

\* CacheWarmer::send_progress
SendProgress(w, progress) ==
    IF w.has_tx THEN Append(w.sent, progress) ELSE w.sent

\* warmup is called: total = tasks.len(), progress = WarmupProgress::new
Warmup(tasks, has_tx) ==
    LET \* WarmupProgress::new
        WarmupProgressNew(total) ==
            [total |-> total, completed |-> 0, current_task |-> None,
             is_done |-> FALSE, success_count |-> 0, failure_count |-> 0]
    IN  /\ warm.pc = "idle"
        /\ warm' = [pc |-> "get", tasks |-> tasks, i |-> 1, has_tx |-> has_tx,
                    progress |-> Some(WarmupProgressNew(Len(tasks))),
                    sent |-> <<>>, fetches |-> [j \in 1..Len(tasks) |-> 0],
                    ret |-> None]
        /\ UNCHANGED <<cache, stats>>
        /\ UNCHANGED notWarmVars

\* the loop body up to continue: cache.get of the key of the task; a value
\* found counts the task as a success and the progress is sent
WarmupGet ==
    /\ warm.pc = "get"
    /\ warm.i <= Len(warm.tasks)
    /\ \E r \in {CacheGet(cache, ToCacheKey(warm.tasks[warm.i]), now)} :
         /\ cache' = r.cache
         /\ stats' = StatsAfterGet(stats, r.value)
         /\ warm' =
              IF r.value.some
              THEN LET progress == WarmupProgressUpdate(warm.progress.val,
                                       warm.tasks[warm.i].description, TRUE)
                   IN  [warm EXCEPT !.progress = Some(progress),
                                    !.sent = SendProgress(warm, progress),
                                    !.i = @ + 1]
              ELSE [warm EXCEPT !.pc = "fetch"]
    /\ UNCHANGED notWarmVars

\* warmup that gives up at the first task whose fetcher fails
WarmupFetchAbort(result) ==
    /\ warm.pc = "fetch"
    /\ LET task == warm.tasks[warm.i]
           progress == WarmupProgressUpdate(warm.progress.val, task.description,
                                            result.ok)
       IN  /\ cache' = IF result.ok
                       THEN LruPut(cache, LruCap(config.max_entries), ToCacheKey(task),
                                   CacheEntryNew(result.val, config.ttl_seconds, now))
                       ELSE cache
           /\ warm' = [warm EXCEPT !.progress = Some(progress),
                                   !.sent = SendProgress(warm, progress),
                                   !.fetches[warm.i] = @ + 1,
                                   !.i = IF result.ok THEN @ + 1 ELSE Len(warm.tasks) + 1,
                                   !.pc = "get"]
    /\ UNCHANGED stats
    /\ UNCHANGED notWarmVars

\* the rest of the loop body: data_fetcher(task); Ok(records) is put under
\* the key of the task and counts as a success, Err counts as a failure;
\* the progress is sent
WarmupFetch(result) ==
    /\ warm.pc = "fetch"
    /\ LET task == warm.tasks[warm.i]
           progress == WarmupProgressUpdate(warm.progress.val, task.description,
                                            result.ok)
       IN  /\ cache' = IF result.ok
                       THEN LruPut(cache, LruCap(config.max_entries), ToCacheKey(task),
                                   CacheEntryNew(result.val, config.ttl_seconds, now))
                       ELSE cache
           /\ warm' = [warm EXCEPT !.progress = Some(progress),
                                   !.sent = SendProgress(warm, progress),
                                   !.fetches[warm.i] = @ + 1,
                                   !.i = @ + 1,
                                   !.pc = "get"]
    /\ UNCHANGED stats
    /\ UNCHANGED notWarmVars

\* after the last task: Ok(progress)
WarmupReturn ==
    /\ warm.pc = "get"
    /\ warm.i > Len(warm.tasks)
    /\ warm' = [warm EXCEPT !.pc = "done",
                            !.ret = Some([ok |-> TRUE, val |-> warm.progress.val])]
    /\ UNCHANGED <<cache, stats>>
    /\ UNCHANGED notWarmVars

WarmNext ==
    LET \* WarmupTask::with_processing_config without tags and processing config
        WarmupTaskNew(start_time, description) ==
            [table |-> "History", start_time |-> start_time, end_time |-> "2024-01-10",
             tags |-> None, processing_config |-> None, description |-> description]
    IN  \/ \E tasks \in SeqsUpTo({WarmupTaskNew("2024-01-01", "first"),
                                  WarmupTaskNew("2024-01-02", "second")}, MaxTasks),
              has_tx \in BOOLEAN : Warmup(tasks, has_tx)
        \/ WarmupGet
        \/ \E result \in {[ok |-> TRUE, val |-> <<>>], [ok |-> TRUE, val |-> <<Record1>>],
                          [ok |-> FALSE, err |-> "Query"]} : WarmupFetch(result)
        \/ WarmupReturn
        \/ Tick

WarmSpec == Init /\ [][WarmNext]_vars

(***************************************************************************)
(* Claims about the cache warmer (WarmSpec)                                *)
(***************************************************************************)
\* C32: warmup handles the tasks one at a time in list order; for a task
\* whose key has a live entry the fetcher is not called and the task
\* counts as a success; otherwise the fetcher is called once: on success
\* its records are put under the key of the task and the task counts as a
\* success, on failure the cache is left as it is, the task counts as a
\* failure and warmup goes on with the next task; warmup returns Ok after
\* the last task
C32_WarmupTaskByTask ==
    /\ [][warm.pc = "get" /\ warm.i <= Len(warm.tasks) /\ warm' # warm =>
            LET k == ToCacheKey(warm.tasks[warm.i])
                isLive == /\ k \in LruKeys(cache)
                          /\ ~IsExpired(cache[LruIndex(cache, k)].entry, now)
                before == warm.progress.val
                after == warm'.progress.val
            IN  IF isLive
                THEN /\ warm'.pc = "get" /\ warm'.i = warm.i + 1
                     /\ warm'.fetches = warm.fetches
                     /\ after.success_count = before.success_count + 1
                     /\ after.failure_count = before.failure_count
                     /\ LruKeys(cache') = LruKeys(cache)
                ELSE /\ warm'.pc = "fetch" /\ warm'.i = warm.i
                     /\ after = before]_vars
    /\ [][warm.pc = "fetch" /\ warm' # warm =>
            LET k == ToCacheKey(warm.tasks[warm.i])
                before == warm.progress.val
                after == warm'.progress.val
            IN  /\ warm'.pc = "get" /\ warm'.i = warm.i + 1
                /\ warm'.fetches = [warm.fetches EXCEPT ![warm.i] = 1]
                /\ \/ /\ k \in LruKeys(cache')
                      /\ cache'[1].key = k
                      /\ cache'[1].entry.created_at = now
                      /\ after.success_count = before.success_count + 1
                      /\ after.failure_count = before.failure_count
                   \/ /\ cache' = cache
                      /\ after.success_count = before.success_count
                      /\ after.failure_count = before.failure_count + 1]_vars
    /\ [](warm.pc = "done" =>
            /\ warm.ret.val.ok
            /\ warm.i = Len(warm.tasks) + 1
            /\ warm.progress.val.completed = Len(warm.tasks))

\* warmup returned after a task whose fetcher failed, a task whose records
\* were stored and a task served from the cache
C32_Witness ==
    /\ warm.pc = "done"
    /\ warm.fetches = <<1, 1, 0>>
    /\ warm.progress.val.failure_count = 1
    /\ warm.progress.val.success_count = 2
    /\ Len(cache) = 1

\* C39: the progress returned by warmup has completed = total,
\* success_count + failure_count = completed and is_done = TRUE, for every
\* task list; in every progress value sent, is_done is TRUE exactly when
\* completed >= total
C39_ProgressDone ==
    /\ warm.pc = "done" =>
          LET progress == warm.ret.val.val
          IN  /\ progress.completed = progress.total
              /\ progress.success_count + progress.failure_count = progress.completed
              /\ progress.is_done
    /\ \A j \in 1..Len(warm.sent) :
          warm.sent[j].is_done <=> warm.sent[j].completed >= warm.sent[j].total

(***************************************************************************)
(* GroupSpec: TagGroupConfigManager. Names are sequences of characters;    *)
(* Local::now is the wall clock in milliseconds, which need not advance    *)
(* between two calls; whether save succeeds is decided by the file system. *)
(***************************************************************************)
\* the number of groups in the list
MaxGroups == 2

\* the milliseconds that pass
MaxClock == 1

\* str::trim: without leading and trailing white space
Trim(s) ==
    LET solid == {i \in 1..Len(s) : s[i] # " "}
    IN  IF solid = {} THEN <<>>
        ELSE SubSeq(s, CHOOSE i \in solid : \A j \in solid : i <= j,
                       CHOOSE i \in solid : \A j \in solid : j <= i)

\* TagGroup::new at wall clock time clock
TagGroupNew(name, charts, clock) ==
    LET \* ChartConfig::validate
        ChartValidate(chart) ==
            IF Len(chart.tags) > 5 THEN [ok |-> FALSE, err |-> "tags"] ELSE [ok |-> TRUE]
    IN  IF Trim(name) = <<>> THEN [ok |-> FALSE, err |-> "name"]
        ELSE IF Len(charts) > 10 THEN [ok |-> FALSE, err |-> "charts"]
        ELSE IF \E i \in 1..Len(charts) : ~ChartValidate(charts[i]).ok
        THEN [ok |-> FALSE, err |-> "tags"]
        ELSE [ok |-> TRUE,
              val |-> [id |-> <<"g", clock>>, name |-> Trim(name), charts |-> charts,
                       processing_config |-> BaseConfig,
                       created_at |-> clock \div 1000, updated_at |-> clock \div 1000]]

\* TagGroup::update at wall clock time clock
TagGroupUpdate(group, name, charts, processing_config, clock) ==
    LET \* ChartConfig::validate
        ChartValidate(chart) ==
            IF Len(chart.tags) > 5 THEN [ok |-> FALSE, err |-> "tags"] ELSE [ok |-> TRUE]
    IN  IF Trim(name) = <<>> THEN [ok |-> FALSE, err |-> "name"]
        ELSE IF Len(charts) > 10 THEN [ok |-> FALSE, err |-> "charts"]
        ELSE IF \E i \in 1..Len(charts) : ~ChartValidate(charts[i]).ok
        THEN [ok |-> FALSE, err |-> "tags"]
        ELSE [ok |-> TRUE,
              val |-> [group EXCEPT !.name = Trim(name), !.charts = charts,
                                    !.processing_config =
                                        IF processing_config.some
                                        THEN processing_config.val ELSE @,
                                    !.updated_at = clock \div 1000]]

\* create_group
CreateGroup(name, charts, save_ok) ==
    /\ Len(tagGroups.groups) < MaxGroups
    /\ LET list == tagGroups.groups
           made == TagGroupNew(name, charts, tagGroups.clock)
       IN  tagGroups' =
             IF \E i \in 1..Len(list) : list[i].name = Trim(name)
             THEN [tagGroups EXCEPT !.ret = [op |-> "create", ok |-> FALSE,
                                             err |-> "Validation"]]
             ELSE IF ~made.ok
             THEN [tagGroups EXCEPT !.ret = [op |-> "create", ok |-> FALSE,
                                             err |-> "Validation"]]
             ELSE [tagGroups EXCEPT
                     !.groups = Append(list, made.val),
                     !.ret = IF save_ok
                             THEN [op |-> "create", ok |-> TRUE, val |-> made.val]
                             ELSE [op |-> "create", ok |-> FALSE, err |-> "Io"]]
    /\ UNCHANGED notGroupVars

\* update_group
UpdateGroup(id, name, charts, processing_config, save_ok) ==
    LET \* the position of the first group with the id, 0 when there is none
        \* (iter().position, iter_mut().find)
        GroupPosition(list, wanted) ==
            IF \E i \in 1..Len(list) : list[i].id = wanted
            THEN CHOOSE i \in 1..Len(list) :
                    list[i].id = wanted /\ \A j \in 1..(i - 1) : list[j].id # wanted
            ELSE 0
    IN  /\ LET list == tagGroups.groups
               at == GroupPosition(list, id)
               updated == TagGroupUpdate(list[at], name, charts, processing_config,
                                         tagGroups.clock)
           IN  tagGroups' =
                 IF \E i \in 1..Len(list) : list[i].id # id /\ list[i].name = Trim(name)
                 THEN [tagGroups EXCEPT !.ret = [op |-> "update", ok |-> FALSE,
                                                 err |-> "Validation"]]
                 ELSE IF at = 0
                 THEN [tagGroups EXCEPT !.ret = [op |-> "update", ok |-> FALSE,
                                                 err |-> "NotFound"]]
                 ELSE IF ~updated.ok
                 THEN [tagGroups EXCEPT !.ret = [op |-> "update", ok |-> FALSE,
                                                 err |-> "Validation"]]
                 ELSE [tagGroups EXCEPT
                         !.groups[at] = updated.val,
                         !.ret = IF save_ok
                                 THEN [op |-> "update", ok |-> TRUE, val |-> updated.val]
                                 ELSE [op |-> "update", ok |-> FALSE, err |-> "Io"]]
        /\ UNCHANGED notGroupVars

\* delete_group
DeleteGroup(id, save_ok) ==
    LET \* the position of the first group with the id, 0 when there is none
        \* (iter().position, iter_mut().find)
        GroupPosition(list, wanted) ==
            IF \E i \in 1..Len(list) : list[i].id = wanted
            THEN CHOOSE i \in 1..Len(list) :
                    list[i].id = wanted /\ \A j \in 1..(i - 1) : list[j].id # wanted
            ELSE 0
    IN  /\ LET list == tagGroups.groups
               idx == GroupPosition(list, id)
           IN  tagGroups' =
                 IF idx = 0
                 THEN [tagGroups EXCEPT !.ret = [op |-> "delete", ok |-> FALSE,
                                                 err |-> "NotFound"]]
                 ELSE [tagGroups EXCEPT
                         !.groups = SubSeq(list, 1, idx - 1)
                                       \o SubSeq(list, idx + 1, Len(list)),
                         !.ret = IF save_ok
                                 THEN [op |-> "delete", ok |-> TRUE]
                                 ELSE [op |-> "delete", ok |-> FALSE, err |-> "Io"]]
        /\ UNCHANGED notGroupVars

\* a millisecond passes
GroupTick ==
    /\ tagGroups.clock < MaxClock
    /\ tagGroups' = [tagGroups EXCEPT !.clock = @ + 1]
    /\ UNCHANGED notGroupVars

GroupNext ==
    LET \* "a", " a", "b" and a blank name
        Names == {<<"a">>, <<" ", "a">>, <<"b">>, <<" ">>}
        chart(n) == [id |-> <<"c", 0>>, name |-> <<"c">>, tags |-> [i \in 1..n |-> TagA]]
        \* no chart, a chart with one tag, a chart with six tags, eleven charts
        Charts == {<<>>, <<chart(1)>>, <<chart(6)>>, [i \in 1..11 |-> chart(0)]}
        Ids == {<<"g", c>> : c \in 0..MaxClock} \cup {<<"g", MaxClock + 1>>}
    IN  \/ \E name \in Names, charts \in Charts, save_ok \in BOOLEAN :
              CreateGroup(name, charts, save_ok)
        \/ \E id \in Ids, name \in Names, charts \in Charts,
              processing_config \in {None, Some(BaseConfig)}, save_ok \in BOOLEAN :
              UpdateGroup(id, name, charts, processing_config, save_ok)
        \/ \E id \in Ids, save_ok \in BOOLEAN : DeleteGroup(id, save_ok)
        \/ GroupTick

GroupSpec == Init /\ [][GroupNext]_vars

(***************************************************************************)
(* Claims about the tag groups (GroupSpec)                                 *)
(***************************************************************************)
\* C33: no two groups of the list have the same name; a create_group or
\* update_group that fails with a validation error leaves the list as it was
C33_DistinctNames ==
    /\ [](\A i, j \in 1..Len(tagGroups.groups) :
            i # j => tagGroups.groups[i].name # tagGroups.groups[j].name)
    /\ [][tagGroups'.clock = tagGroups.clock /\ ~tagGroups'.ret.ok
             /\ tagGroups'.ret.err = "Validation"
          => tagGroups'.groups = tagGroups.groups]_vars

\* C40: a create_group, update_group or delete_group that returns an error
\* leaves the list of groups as it was
C40_ErrorLeavesGroups ==
    [][tagGroups'.clock = tagGroups.clock /\ tagGroups'.ret.op # "load"
          /\ ~tagGroups'.ret.ok
       => tagGroups'.groups = tagGroups.groups]_vars

(***************************************************************************)
(* LockSpec: the concurrent callers of ConcSpec under a fair scheduler.    *)
(* tokio's RwLock grants the lock in the order of the requests, so a task  *)
(* that waits for a lock gets it once the holders have left (strong        *)
(* fairness on the steps that take a lock); a task that is not waiting for *)
(* a lock is polled again by the runtime and takes its next step (weak     *)
(* fairness).  Whether an idle task calls again is up to the task.  The    *)
(* calls use one key and the clock stands still: neither the key nor the   *)
(* age of an entry changes which locks a call takes.                       *)
(***************************************************************************)
LockNext ==
    \/ \E p \in Procs : CallGet(p, CacheKeyNew("History", "2024-01-01", "2024-01-10", None, None))
    \/ \E p \in Procs :
          CallPut(p, CacheKeyNew("History", "2024-01-01", "2024-01-10", None, None),
                  <<Record1>>)
    \/ \E p \in Procs : CallClear(p)
    \/ \E p \in Procs : CallGetStats(p)
    \/ \E p \in Procs : CallEvictExpired(p)
    \/ \E p \in Procs : LockCacheWrite(p)
    \/ \E p \in Procs : GetLookup(p)
    \/ \E p \in Procs : LockStatsWrite(p)
    \/ \E p \in Procs : GetCount(p)
    \/ \E p \in Procs : PutInsert(p)
    \/ \E p \in Procs : ClearCache(p)
    \/ \E p \in Procs : ClearStats(p)
    \/ \E p \in Procs : EvictSweep(p)
    \/ \E p \in Procs : StatsLockCache(p)
    \/ \E p \in Procs : StatsLockStats(p)
    \/ \E p \in Procs : StatsReadCounters(p)
    \/ \E p \in Procs : StatsReadCache(p)
    \/ \E p \in Procs : Return(p)

LockSpec ==
    /\ ConcInit
    /\ [][LockNext]_vars
    /\ \A p \in Procs :
          /\ SF_vars(LockCacheWrite(p) \/ StatsLockCache(p))
          /\ SF_vars(LockStatsWrite(p) \/ StatsLockStats(p))
          /\ WF_vars(GetLookup(p) \/ GetCount(p) \/ PutInsert(p) \/ ClearCache(p)
                     \/ ClearStats(p) \/ EvictSweep(p) \/ StatsReadCounters(p)
                     \/ StatsReadCache(p) \/ Return(p))

\* C34: the entries and the counters have a lock each; a task that holds or
\* awaits the lock of the counters holds the lock of the entries; as long
\* as a call is under way some task can take a step; every call that has
\* started returns
C34_NoDeadlock ==
    /\ [](\A p \in Procs :
            /\ statsLock.writer = p => cacheLock.writer = p
            /\ p \in statsLock.readers => p \in cacheLock.readers
            /\ pc[p] \in {"get_stats_lock", "clear_stats_lock"} => cacheLock.writer = p
            /\ pc[p] = "stats_lock_stats" => p \in cacheLock.readers)
    /\ []((\E p \in Procs : pc[p] # "idle") =>
            \E p \in Procs :
                ENABLED (\/ LockCacheWrite(p) \/ StatsLockCache(p) \/ LockStatsWrite(p)
                         \/ StatsLockStats(p) \/ GetLookup(p) \/ GetCount(p)
                         \/ PutInsert(p) \/ ClearCache(p) \/ ClearStats(p)
                         \/ EvictSweep(p) \/ StatsReadCounters(p)
                         \/ StatsReadCache(p) \/ Return(p)))
    /\ \A p \in Procs : (pc[p] # "idle") ~> (pc[p] = "idle")

\* one task holds both locks for a clear while the other has called
\* get_stats and waits for the lock of the entries
C34_Witness ==
    /\ pc[1] = "clear_stats" /\ cacheLock.writer = 1 /\ statsLock.writer = 1
    /\ pc[2] = "stats_lock_cache"

(***************************************************************************)
(* More claims about the cache (Spec)                                      *)
(***************************************************************************)
\* C35: a get hit does not extend the life of an entry: every entry of the
\* cache carries the time of the last put of its key, whatever gets hit it
\* since; a get returns a payload only while the TTL has not elapsed since
\* that put and returns None after it; a put restarts the TTL
C35_HitKeepsExpiry ==
    /\ \A i \in 1..Len(cache) :
          /\ live[cache[i].key].some
          /\ cache[i].entry.created_at = live[cache[i].key].val.at
          /\ cache[i].entry.ttl = config.ttl_seconds
    /\ (ret.op = "get" /\ ret.value.some) =>
          now - live[ret.key].val.at <= config.ttl_seconds
    /\ (ret.op = "get" /\ ret.stale) => ret.value = None
    /\ ret.op = "put" =>
          /\ cache[1].key = ret.key
          /\ cache[1].entry.created_at = now

\* a get returned None for an entry older than its TTL that a get had
\* hit before
C35_Witness ==
    /\ ret.op = "get"
    /\ ret.stale
    /\ ret.value = None
    /\ calls.some >= 1
    /\ now = config.ttl_seconds + 1
    /\ config.max_entries = 1

(***************************************************************************)
(* PageSpec: query_history requests for one key with different pages. The  *)
(* backing store holds two points in the first second and one point in     *)
(* each of the next seconds, so that resampling returns fewer records than *)
(* it is given.                                                            *)
(***************************************************************************)
PageNext ==
    LET Row(ms) == HistoryRecordNew([ms |-> ms, form |-> "millis"], <<97>>,
                                    RatInt(1), "Good")
        \* QueryParams.offset and QueryParams.limit of query_history
        Calls == [v2 : {FALSE},
                  page : {[offset |-> None, limit |-> None],
                          [offset |-> Some(1), limit |-> Some(1)],
                          [offset |-> Some(0), limit |-> Some(2)]}]
    IN  \/ \E p \in Procs : QueryStart(p, PageArgs)
        \/ \E p \in Procs : \E call \in Calls : QueryLookup(p, call)
        \/ \E p \in Procs :
              \E records \in {<<Row(0), Row(500), Row(1000)>>,
                              <<Row(0), Row(1000), Row(2000)>>} :
                  QueryFetch(p, records)
        \/ \E p \in Procs : QueryFetchFails(p)
        \/ \E p \in Procs : \E call \in Calls : QueryStore(p, call)
        \/ QueryTick

PageSpec == QueryInit /\ [][PageNext]_vars

(***************************************************************************)
(* Claims about the pages of query_history (PageSpec)                      *)
(***************************************************************************)
\* C36: the cache key of a request does not depend on its offset and limit,
\* and the payload put under it is the complete processed result; a
\* query_history request served from the cache returns the records that
\* its own offset and limit select from the complete result of the request
\* that populated the entry, whatever page that request asked for
C36_PageOfCompleteResult ==
    /\ \A p \in Procs :
          svc[p].pc # "idle" => svc[p].cache_key = KeyOfArgs(PageArgs)
    /\ \A k \in QueryKeys :
          puts[k].some =>
              LET q == puts[k].val.p
              IN  (Finished(q) /\ Has(svc[q].trace, "put") /\ svc[q].cache_key = k) =>
                      puts[k].val.data = svc[q].processed_records
    /\ \A i \in 1..Len(cache) :
          /\ puts[cache[i].key].some
          /\ cache[i].entry.data = puts[cache[i].key].val.data
    /\ \A p \in Procs :
          (Finished(p) /\ svc[p].found.some) =>
              /\ svc[p].found = Some(svc[p].seen.val.data)
              /\ svc[p].result.val.records =
                    ApplyPagination(svc[p].seen.val.data, svc[p].page.offset,
                                    svc[p].page.limit)

\* a request for the second record is served from the entry that a request
\* for the whole result stored
C36_Witness ==
    \E p, q \in Procs :
        /\ Finished(p) /\ svc[p].found.some
        /\ svc[p].page = [offset |-> Some(1), limit |-> Some(1)]
        /\ Len(svc[p].result.val.records) = 1
        /\ Finished(q) /\ Has(svc[q].trace, "put")
        /\ svc[q].page = [offset |-> None, limit |-> None]
        /\ svc[p].seen = Some([p |-> q, data |-> svc[q].processed_records])
        /\ Len(svc[q].processed_records) = 3

\* C37: the total of a query_history result served from the cache equals
\* the total that the request which populated the entry returned
C37_SameTotalOnHit ==
    \A p, q \in Procs :
        (/\ Finished(p) /\ svc[p].found.some
         /\ Finished(q) /\ Has(svc[q].trace, "put") /\ ~svc[q].force_refresh
         /\ svc[p].seen = Some([p |-> q, data |-> svc[q].processed_records]))
            => svc[p].result.val.total = svc[q].result.val.total

(***************************************************************************)
(* More claims about the processing functions (ProcSpec)                   *)
(***************************************************************************)
\* C38: process_query_result returns the same record sequence for the same
\* records and config, whatever order the HashMap of the tag groups hands
\* the groups out in
C38_Deterministic ==
    procOut.fn = "process_query_result" =>
        \A order \in Orders(TagsOf(procIn.records)) :
            ProcessQueryResult(procIn.records, procIn.config, procIn.polars_fails,
                               order) = procOut.out

====
